---------------------------- MODULE Spec2Model ----------------------------
(***************************************************************************)
(* A model of glmext: geometric value types (ray_t, sphere_t, aabox_t,     *)
(* aabox2_t, plane_t, frustum_t) and their closed-form queries.            *)
(*                                                                         *)
(* The scalar type T (float / double in the source) is modelled as the     *)
(* IEEE-754 value classes the code can produce: finite values, signed      *)
(* zero, +-infinity, NaN and numeric_limits<T>::max() / lowest().  Finite  *)
(* values are exact: a finite value is a number a + b*sqrt(r) with a, b    *)
(* rational and r a square-free integer, so that sqrt, normalize and       *)
(* division are computed, not assumed.  Rounding error is not modelled.    *)
(***************************************************************************)
EXTENDS Integers, Sequences, FiniteSets, TLC

(***************************************************************************)
(* Rationals n/d in lowest terms, d > 0.                                   *)
(***************************************************************************)
Abs(x) == IF x < 0 THEN -x ELSE x

RECURSIVE Gcd(_, _)
Gcd(a, b) == IF b = 0 THEN a ELSE Gcd(b, a % b)

\* (Values are passed as operator arguments rather than bound by LET: TLC
\* evaluates an argument once and a LET definition at each of its uses.)
RatG(n, d, g) == IF d < 0 THEN [n |-> (-n) \div g, d |-> (-d) \div g]
                 ELSE [n |-> n \div g, d |-> d \div g]
Rat(n, d)     == IF d = 1 THEN [n |-> n, d |-> 1] ELSE RatG(n, d, Gcd(Abs(n), Abs(d)))

\* the sum over the least common denominator
RAddG(x, y, g) == Rat(x.n * (y.d \div g) + y.n * (x.d \div g), (x.d \div g) * y.d)
RAdd(x, y) == IF x.d = 1 /\ y.d = 1 THEN [n |-> x.n + y.n, d |-> 1]
              ELSE RAddG(x, y, Gcd(x.d, y.d))
RNeg(x)    == [n |-> -x.n, d |-> x.d]
RSub(x, y) == RAdd(x, RNeg(y))
RMul(x, y) == Rat(x.n * y.n, x.d * y.d)
RDiv(x, y) == Rat(x.n * y.d, x.d * y.n)
RSign(x)   == IF x.n > 0 THEN 1 ELSE IF x.n < 0 THEN -1 ELSE 0
RZero      == [n |-> 0, d |-> 1]
ROne       == [n |-> 1, d |-> 1]

(***************************************************************************)
(* Exact finite values a + b*sqrt(r).  Canonical form: r = 1 and b = 0 for *)
(* a rational, otherwise r > 1 square-free and b # 0, so that equal        *)
(* numbers are equal records.  Two values combine only when they lie in    *)
(* the same field Q(sqrt(r)).                                              *)
(***************************************************************************)
Mk(a, b, r) == IF b.n = 0 \/ r = 1
               THEN [a |-> IF r = 1 THEN RAdd(a, b) ELSE a, b |-> RZero, r |-> 1]
               ELSE [a |-> a, b |-> b, r |-> r]

Q(n, d) == [a |-> Rat(n, d), b |-> RZero, r |-> 1]
N(n)    == Q(n, 1)
Zero    == N(0)
One     == N(1)

SameField(x, y) == x.r = 1 \/ y.r = 1 \/ x.r = y.r
Rad(x, y)       == IF x.r = 1 THEN y.r ELSE x.r

XAdd(x, y) == IF x.r = 1 /\ y.r = 1
              THEN [a |-> RAdd(x.a, y.a), b |-> RZero, r |-> 1]
              ELSE CASE SameField(x, y) ->
                     Mk(RAdd(x.a, y.a), RAdd(x.b, y.b), Rad(x, y))
XNeg(x)    == [a |-> RNeg(x.a), b |-> RNeg(x.b), r |-> x.r]
XSub(x, y) == XAdd(x, XNeg(y))
XMul(x, y) == IF x.r = 1 /\ y.r = 1
              THEN [a |-> RMul(x.a, y.a), b |-> RZero, r |-> 1]
              ELSE CASE SameField(x, y) ->
                     Mk(RAdd(RMul(x.a, y.a), RMul(RMul(x.b, y.b), Rat(Rad(x, y), 1))),
                        RAdd(RMul(x.a, y.b), RMul(x.b, y.a)), Rad(x, y))
\* 1/x for x # 0: the conjugate over the norm a^2 - b^2 r
XInvN(x, norm) == Mk(RDiv(x.a, norm), RNeg(RDiv(x.b, norm)), x.r)
XInv(x)    == IF x.r = 1 THEN [a |-> RDiv(ROne, x.a), b |-> RZero, r |-> 1]
              ELSE XInvN(x, RSub(RMul(x.a, x.a), RMul(RMul(x.b, x.b), Rat(x.r, 1))))
XDiv(x, y) == IF x.r = 1 /\ y.r = 1
              THEN [a |-> RDiv(x.a, y.a), b |-> RZero, r |-> 1]
              ELSE XMul(x, XInv(y))

\* the sign of a + b*sqrt(r)
XSign(x) ==
  IF x.b.n = 0 THEN RSign(x.a)
  ELSE IF x.a.n = 0 THEN RSign(x.b)
  ELSE IF RSign(x.a) = RSign(x.b) THEN RSign(x.a)
  ELSE RSign(x.a) * RSign(RSub(RMul(x.a, x.a), RMul(RMul(x.b, x.b), Rat(x.r, 1))))

XIsZero(x) == x.a.n = 0 /\ x.b.n = 0
XLt(x, y)  == XSign(XSub(x, y)) < 0
XLe(x, y)  == XSign(XSub(x, y)) <= 0

\* the largest k with k*k dividing m (m > 0)
RECURSIVE LargestSquare(_, _, _)
LargestSquare(m, k, best) ==
  IF k * k > m THEN best
  ELSE LargestSquare(m, k + 1, IF m % (k * k) = 0 THEN k ELSE best)

\* sqrt of a positive rational n/d in lowest terms, n = kn*kn*sn and
\* d = kd*kd*sd: (kn / (kd*sd)) * sqrt(sn*sd)
XSqrtK(n, d, kn, kd) ==
  Mk(RZero, Rat(kn, kd * (d \div (kd * kd))),
     (n \div (kn * kn)) * (d \div (kd * kd)))
XSqrt(x) ==
  CASE x.r = 1 /\ x.a.n >= 0 ->
    IF x.a.n = 0 THEN Zero
    ELSE XSqrtK(x.a.n, x.a.d, LargestSquare(x.a.n, 1, 1), LargestSquare(x.a.d, 1, 1))


(***************************************************************************)
(* Values of the scalar type T.  k is the IEEE class; x is the exact value *)
(* of a finite one.  "negzero" is -0.0; "max" and "lowest" are             *)
(* std::numeric_limits<T>::max() and lowest(), which lie beyond every      *)
(* finite value the bounded inputs produce.                                *)
(***************************************************************************)
Fin(x)    == [k |-> "fin", x |-> x]
TInt(n)   == Fin(N(n))
TZero     == TInt(0)
NegZero   == [k |-> "negzero", x |-> Zero]
NaN       == [k |-> "nan", x |-> Zero]
PInf      == [k |-> "pinf", x |-> Zero]
NInf      == [k |-> "ninf", x |-> Zero]
TMax      == [k |-> "max", x |-> Zero]
TLowest   == [k |-> "lowest", x |-> Zero]

IsNaN(t)    == t.k = "nan"
IsFinite(t) == t.k \in {"fin", "negzero"}
IsInf(t)    == t.k \in {"pinf", "ninf"}
IsHuge(t)   == t.k \in {"max", "lowest"}
TIsZero(t)  == IsFinite(t) /\ XIsZero(t.x)
SignBit(t)  == \/ t.k \in {"negzero", "ninf", "lowest"}
               \/ t.k = "fin" /\ XSign(t.x) < 0
\* a finite result; a zero result carries the sign bit neg
FinS(x, neg) == IF XIsZero(x) /\ neg THEN NegZero ELSE Fin(x)
SInf(neg)    == IF neg THEN NInf ELSE PInf
SHuge(neg)   == IF neg THEN TLowest ELSE TMax

\* the order of the classes on the real line
Rank(t) == CASE t.k = "ninf"   -> 0
             [] t.k = "lowest" -> 1
             [] t.k \in {"fin", "negzero"} -> 2
             [] t.k = "max"    -> 3
             [] t.k = "pinf"   -> 4

\* IEEE comparisons: every comparison with NaN is false, -0 = +0
TLt(x, y) == /\ ~IsNaN(x) /\ ~IsNaN(y)
             /\ \/ Rank(x) < Rank(y)
                \/ IsFinite(x) /\ IsFinite(y) /\ XLt(x.x, y.x)
TGt(x, y) == TLt(y, x)
TEq(x, y) == /\ ~IsNaN(x) /\ ~IsNaN(y)
             /\ Rank(x) = Rank(y)
             /\ IsFinite(x) => x.x = y.x
TLe(x, y) == TLt(x, y) \/ TEq(x, y)
TGe(x, y) == TLe(y, x)

TNeg(t) == CASE t.k = "nan"     -> NaN
             [] t.k = "pinf"    -> NInf
             [] t.k = "ninf"    -> PInf
             [] t.k = "max"     -> TLowest
             [] t.k = "lowest"  -> TMax
             [] t.k = "negzero" -> TZero
             [] t.k = "fin"     -> FinS(XNeg(t.x), XIsZero(t.x))

\* x + y.  max() + (a model-sized finite value) rounds back to max().
TAdd(x, y) ==
  CASE IsNaN(x) \/ IsNaN(y) -> NaN
    [] IsInf(x) /\ IsInf(y) -> IF x.k = y.k THEN x ELSE NaN
    [] IsInf(x) /\ ~IsNaN(y) /\ ~IsInf(y) -> x
    [] IsInf(y) /\ ~IsNaN(x) /\ ~IsInf(x) -> y
    [] IsHuge(x) /\ IsHuge(y) -> IF x.k = y.k THEN SInf(SignBit(x)) ELSE TZero
    [] IsHuge(x) /\ IsFinite(y) -> x
    [] IsHuge(y) /\ IsFinite(x) -> y
    [] IsFinite(x) /\ IsFinite(y) ->
         FinS(XAdd(x.x, y.x), x.k = "negzero" /\ y.k = "negzero")
TSub(x, y) == TAdd(x, TNeg(y))

TMul(x, y) ==
  LET neg == SignBit(x) # SignBit(y)
  IN  CASE IsNaN(x) \/ IsNaN(y) -> NaN
        [] (IsInf(x) /\ TIsZero(y)) \/ (IsInf(y) /\ TIsZero(x)) -> NaN
        [] (IsInf(x) \/ IsInf(y)) /\ ~TIsZero(x) /\ ~TIsZero(y) -> SInf(neg)
        [] IsHuge(x) /\ IsHuge(y) -> SInf(neg)
        [] IsHuge(x) /\ IsFinite(y) /\ Abs(XSign(y.x)) = 1 /\ XIsZero(XSub(XMul(y.x, y.x), One))
             -> SHuge(neg)
        [] IsHuge(y) /\ IsFinite(x) /\ Abs(XSign(x.x)) = 1 /\ XIsZero(XSub(XMul(x.x, x.x), One))
             -> SHuge(neg)
        [] (IsHuge(x) /\ TIsZero(y)) \/ (IsHuge(y) /\ TIsZero(x)) -> FinS(Zero, neg)
        [] IsFinite(x) /\ IsFinite(y) -> FinS(XMul(x.x, y.x), neg)

\* x / y, with IEEE division by zero: 0/0 = NaN, x/0 = +-inf
TDiv(x, y) ==
  LET neg == SignBit(x) # SignBit(y)
  IN  CASE IsNaN(x) \/ IsNaN(y) -> NaN
        [] TIsZero(y) /\ TIsZero(x) -> NaN
        [] TIsZero(y) /\ ~TIsZero(x) -> SInf(neg)
        [] IsInf(x) /\ IsInf(y) -> NaN
        [] IsInf(x) /\ ~IsInf(y) /\ ~TIsZero(y) -> SInf(neg)
        [] IsInf(y) /\ ~IsInf(x) -> FinS(Zero, neg)
        [] IsFinite(x) /\ IsFinite(y) /\ ~TIsZero(y) -> FinS(XDiv(x.x, y.x), neg)

TSqrt(x) ==
  CASE IsNaN(x) -> NaN
    [] x.k = "pinf" -> PInf
    [] TIsZero(x) -> x
    [] IsFinite(x) /\ ~TIsZero(x) -> IF SignBit(x) THEN NaN ELSE Fin(XSqrt(x.x))
    [] x.k \in {"ninf", "lowest"} -> NaN

TAbs(x) == IF SignBit(x) THEN TNeg(x) ELSE x

(***************************************************************************)
(* glm::vec<3, T> and glm::vec<2, T>: functions on the source's indices.   *)
(***************************************************************************)
Vec3(x, y, z) == [i \in 0..2 |-> CASE i = 0 -> x [] i = 1 -> y [] i = 2 -> z]
Vec2(x, y)    == [i \in 0..1 |-> IF i = 0 THEN x ELSE y]
IVec3(x, y, z) == Vec3(TInt(x), TInt(y), TInt(z))
IVec2(x, y)    == Vec2(TInt(x), TInt(y))

VAdd(u, v)   == [i \in DOMAIN u |-> TAdd(u[i], v[i])]
VSub(u, v)   == [i \in DOMAIN u |-> TSub(u[i], v[i])]
VScale(u, s) == [i \in DOMAIN u |-> TMul(u[i], s)]
VDivS(u, s)  == [i \in DOMAIN u |-> TDiv(u[i], s)]
VEq(u, v)    == \A i \in DOMAIN u : TEq(u[i], v[i])

dot(u, v) == TAdd(TAdd(TMul(u[0], v[0]), TMul(u[1], v[1])), TMul(u[2], v[2]))
dot2(u, v) == TAdd(TMul(u[0], v[0]), TMul(u[1], v[1]))
cross(u, v) == Vec3(TSub(TMul(u[1], v[2]), TMul(v[1], u[2])),
                    TSub(TMul(u[2], v[0]), TMul(v[2], u[0])),
                    TSub(TMul(u[0], v[1]), TMul(v[0], u[1])))
length(v)    == TSqrt(dot(v, v))
normalize(v) == VDivS(v, length(v))
lensq(v)     == dot(v, v)


(***************************************************************************)
(* The program state: the values the caller holds and the out-parameters   *)
(* the queries write.  called is the set of queries made on the inputs.    *)
(***************************************************************************)
VARIABLES
  called,                     \* the queries already made
  ray,                        \* ray_t: [mOrigin, mDir]
  sphere,                     \* sphere_t: [mCenter, mRadius]
  ret, numhits, t0, t1,       \* ray_t::intersect(sphere, numhits, t0, t1)
  glm_ret, glm_t0, glm_t1,    \* glm::intersect(sphere, ray, t0, t1)
  box,                        \* aabox_t: [mMin, mMax, mEmpty]
  numHits, tIn, tOut,         \* ray_t::intersect(box, numHits, tIn, tOut)
  p1, p2,                     \* plane_t: [normal, d]
  out_point, out_direction,   \* glm::intersect(p1, p2, out_point, out_direction)
  out_u, out_v,               \* generate_uv(p1, out_u, out_v)
  pt, coord,                  \* the caller's 3D point and 2D coordinate
  projected, roundtrip_pt,    \* project(u, v, pt) and its unproject
  unprojected, roundtrip_coord, \* unproject(p1, u, v, coord) and its project
  viewProjectionMatrix,       \* glm::mat<4, 4, T>
  mPlanes,                    \* frustum_t::mPlanes
  inside_pt,                  \* a point strictly inside the frustum
  b1,                         \* aabox2_t: [mMin, mMax]
  last,                       \* the latest call made on box or b1
  box2,                       \* aabox_t: a copy of box
  slabs,                      \* intersectAABoxRay: the slabs it computed, in order
  args,                       \* the constructor of p1 and its arguments
  answers,                    \* the value each intersects query returned
  added,                      \* the points added to box and to b1 so far
  num,                        \* the argument of nextPowerOfTwo: [width, bits]
  returned                    \* what nextPowerOfTwo(num) returned: [done, bits]

sphereVars == <<sphere, numhits, t0, t1, glm_ret, glm_t0, glm_t1>>
rayBoxVars == <<box, numHits, tIn, tOut>>
planeVars == <<p1, p2, out_point, out_direction>>
projectVars == <<out_u, out_v, pt, coord, projected, roundtrip_pt,
                 unprojected, roundtrip_coord>>
frustumVars == <<viewProjectionMatrix, mPlanes, inside_pt>>
boxVars == <<b1, last>>
aaboxVars == <<box2>>
slabVars == <<slabs>>
ctorVars == <<args>>
queryVars == <<answers>>
historyVars == <<added>>
powVars == <<num, returned>>
vars == <<called, ray, ret, sphereVars, rayBoxVars, planeVars, projectVars,
          frustumVars, boxVars, aaboxVars, slabVars, ctorVars, queryVars, historyVars,
                     powVars>>

\* the caller's value of an out-parameter before the call
Unset == TInt(-9)

\* sphere_t(), aabox_t(): the default-constructed values
DefaultSphere == [mCenter |-> IVec3(0, 0, 0), mRadius |-> TZero]
DefaultBox == [mMin |-> Vec3(TMax, TMax, TMax),
               mMax |-> Vec3(TLowest, TLowest, TLowest),
               mEmpty |-> TRUE]

IdleSphere == /\ sphere = DefaultSphere
              /\ numhits = -9 /\ t0 = Unset /\ t1 = Unset
              /\ glm_ret = -9 /\ glm_t0 = Unset /\ glm_t1 = Unset
IdleRayBox == /\ box = DefaultBox
              /\ numHits = 9 /\ tIn = Unset /\ tOut = Unset
DefaultRay == [mOrigin |-> IVec3(0, 0, 0), mDir |-> IVec3(0, 0, -1)]
DefaultPlane == [normal |-> IVec3(0, 0, 0), d |-> TZero]
IdlePlanes == /\ p1 = DefaultPlane /\ p2 = DefaultPlane
              /\ out_point = IVec3(0, 0, 0) /\ out_direction = IVec3(0, 0, 0)
UnsetVec == IVec3(-9, -9, -9)
IdleProject == /\ out_u = UnsetVec /\ out_v = UnsetVec
               /\ pt = IVec3(0, 0, 0) /\ coord = IVec2(0, 0)
               /\ projected = IVec2(-9, -9) /\ roundtrip_pt = UnsetVec
               /\ unprojected = UnsetVec /\ roundtrip_coord = IVec2(-9, -9)
IdleFrustum == /\ viewProjectionMatrix = 1     \* no matrix given
               /\ mPlanes = [i \in 0..5 |-> DefaultPlane]
               /\ inside_pt = IVec3(0, 0, 0)

Box2(mn, mx) == [mMin |-> mn, mMax |-> mx]
\* aabox2_t::setNull(), AABox2.h line 40, and the default constructor
aabox2_null == Box2(Vec2(TMax, TMax), Vec2(TLowest, TLowest))
NoCall == [op |-> "none", p |-> IVec2(0, 0), b2 |-> aabox2_null, val |-> TZero,
           box |-> DefaultBox, b1 |-> aabox2_null]
IdleBoxes == b1 = aabox2_null /\ last = NoCall
IdleAABox == box2 = DefaultBox
IdleSlabs == slabs = <<>>
\* plane_t(): no arguments
NoArgs == [op |-> "plane_t()", norm |-> IVec3(0, 0, 0), pt1 |-> IVec3(0, 0, 0),
           pt2 |-> IVec3(0, 0, 0), pt3 |-> IVec3(0, 0, 0)]
IdleCtor == args = NoArgs
IdleQueries == answers = <<>>
NoPoints == [box |-> {}, b1 |-> {}]
IdleHistory == added = NoPoints
NotReturned == [done |-> FALSE, bits |-> {}]
IdlePow == num = [width |-> 0, bits |-> {}] /\ returned = NotReturned

\* what a specification of one part leaves alone: the variables of the
\* other parts, and the values they keep
exceptRaySphere == <<rayBoxVars, planeVars, projectVars, frustumVars, boxVars, aaboxVars,
                     slabVars, ctorVars, queryVars, historyVars, powVars>>
exceptRayBox    == <<sphereVars, planeVars, projectVars, frustumVars, boxVars, aaboxVars,
                     ctorVars, queryVars, historyVars, powVars>>
exceptPlanes    == <<ray, sphereVars, rayBoxVars, projectVars, frustumVars, boxVars,
                     aaboxVars, slabVars, ctorVars, queryVars, historyVars, powVars>>
exceptProject   == <<ray, ret, sphereVars, rayBoxVars, planeVars, frustumVars, boxVars,
                     aaboxVars, slabVars, ctorVars, queryVars, historyVars, powVars>>
exceptFrustum   == <<ray, ret, sphereVars, rayBoxVars, planeVars, projectVars, boxVars,
                     aaboxVars, slabVars, ctorVars, queryVars, historyVars, powVars>>
exceptBoxes     == <<ray, ret, sphereVars, numHits, tIn, tOut, planeVars, projectVars,
                     frustumVars, aaboxVars, slabVars, ctorVars, queryVars, historyVars,
                     powVars>>
IdleExceptRaySphere ==
  IdleRayBox /\ IdlePlanes /\ IdleProject /\ IdleFrustum /\ IdleBoxes /\ IdleAABox /\ IdleSlabs /\ IdleCtor /\ IdleQueries /\ IdleHistory /\ IdlePow
IdleExceptRayBox ==
  IdleSphere /\ IdlePlanes /\ IdleProject /\ IdleFrustum /\ IdleBoxes /\ IdleAABox /\ IdleCtor /\ IdleQueries /\ IdleHistory /\ IdlePow
IdleExceptPlanes ==
  /\ ray = DefaultRay
  /\ IdleSphere /\ IdleRayBox /\ IdleProject /\ IdleFrustum /\ IdleBoxes /\ IdleAABox /\ IdleSlabs /\ IdleCtor /\ IdleQueries /\ IdleHistory /\ IdlePow
IdleExceptProject ==
  /\ ray = DefaultRay /\ ret = FALSE
  /\ IdleSphere /\ IdleRayBox /\ IdleFrustum /\ IdleBoxes /\ IdleAABox /\ IdleSlabs /\ IdleCtor /\ IdleQueries /\ IdleHistory /\ IdlePow
IdleExceptFrustum ==
  /\ ray = DefaultRay /\ ret = FALSE
  /\ IdleSphere /\ IdleRayBox /\ IdlePlanes /\ IdleProject /\ IdleBoxes /\ IdleAABox /\ IdleSlabs /\ IdleCtor /\ IdleQueries /\ IdleHistory /\ IdlePow
IdleExceptBoxes ==
  /\ ray = DefaultRay /\ ret = FALSE
  /\ numHits = 9 /\ tIn = Unset /\ tOut = Unset
  /\ IdleSphere /\ IdlePlanes /\ IdleProject /\ IdleFrustum /\ IdleAABox /\ IdleSlabs /\ IdleCtor /\ IdleQueries /\ IdleHistory /\ IdlePow
exceptAABox ==
  <<called, ray, ret, sphereVars, numHits, tIn, tOut, planeVars, projectVars,
    frustumVars, boxVars, slabVars, ctorVars, queryVars, historyVars, powVars>>
IdleExceptAABox ==
  /\ called = {} /\ ray = DefaultRay /\ ret = FALSE
  /\ numHits = 9 /\ tIn = Unset /\ tOut = Unset
  /\ IdleSphere /\ IdlePlanes /\ IdleProject /\ IdleFrustum /\ IdleBoxes /\ IdleSlabs /\ IdleCtor /\ IdleQueries /\ IdleHistory /\ IdlePow

exceptPlaneCtor ==
  <<ray, ret, sphereVars, rayBoxVars, p2, out_point, out_direction, projectVars,
    frustumVars, boxVars, aaboxVars, slabVars, queryVars, historyVars, powVars>>
IdleExceptPlaneCtor ==
  /\ ray = DefaultRay /\ ret = FALSE
  /\ p2 = DefaultPlane /\ out_point = IVec3(0, 0, 0) /\ out_direction = IVec3(0, 0, 0)
  /\ IdleSphere /\ IdleRayBox /\ IdleProject /\ IdleFrustum /\ IdleBoxes
  /\ IdleAABox /\ IdleSlabs /\ IdleQueries /\ IdleHistory /\ IdlePow

(***************************************************************************)
(* Ray.h: ray_t::intersect(sphere, numhits, t0, t1).  t0in, t1in are the   *)
(* caller's values of the out-parameters, kept where the code does not     *)
(* assign them.  The locals of the function are the parameters of the      *)
(* operators below, in the order the code computes them.                   *)
(***************************************************************************)
Hits(ret_, numhits_, t0_, t1_) ==
  [ret |-> ret_, numhits |-> numhits_, t0 |-> t0_, t1 |-> t1_]

\* lines 125-140: the two roots t0 < t1 are known
\* (mutant: the t >= 0 tests left out, every real root is reported)
ray_sphere_two_roots_NoSignTest(r0, r1) == Hits(TRUE, 2, r0, r1)
\* (mutant: the single hit left in t1, t0 not overwritten)
ray_sphere_two_roots_NoCopy(r0, r1) ==
  IF TGe(r0, TZero) THEN Hits(TRUE, 2, r0, r1)
  ELSE IF TGe(r1, TZero) THEN Hits(TRUE, 1, r0, r1)
  ELSE Hits(FALSE, 0, r0, r1)
\* (mutant: the negative root t0 reported for an origin inside the sphere)
ray_sphere_two_roots_EntryKept(r0, r1) ==
  IF TGe(r0, TZero) THEN Hits(TRUE, 2, r0, r1)
  ELSE IF TGe(r1, TZero) THEN Hits(TRUE, 1, r0, r0)
  ELSE Hits(FALSE, 0, r0, r1)
ray_sphere_two_roots(r0, r1) ==
  IF TGe(r0, TZero) THEN Hits(TRUE, 2, r0, r1)
  ELSE IF TGe(r1, TZero) THEN Hits(TRUE, 1, r1, r1)
  ELSE Hits(FALSE, 0, r0, r1)

\* lines 144-154: the double root
\* (mutant: the test written as not (t0 < 0), which a NaN passes)
ray_sphere_one_root_NotNegative(e0, t1in) ==
  IF ~TLt(e0, TZero) THEN Hits(TRUE, 1, e0, t1in)
  ELSE Hits(FALSE, 0, e0, t1in)
\* (mutant: numhits = 0 of line 152 left out, numhits stays -1)
ray_sphere_one_root_CountKept(e0, t1in) ==
  IF TGe(e0, TZero) THEN Hits(TRUE, 1, e0, t1in)
  ELSE Hits(FALSE, -1, e0, t1in)
ray_sphere_one_root(e0, t1in) ==
  IF TGe(e0, TZero) THEN Hits(TRUE, 1, e0, t1in)
  ELSE Hits(FALSE, 0, e0, t1in)

\* lines 118-121: root, invA and the two roots
\* (mutant: the roots not divided by a)
ray_sphere_roots_NoInvA(b, root, invA) ==
  ray_sphere_two_roots(TSub(TNeg(b), root), TAdd(TNeg(b), root))
ray_sphere_roots(b, root, invA) ==
  ray_sphere_two_roots(TMul(TSub(TNeg(b), root), invA),
                       TMul(TAdd(TNeg(b), root), invA))

\* lines 110-155: the branch on the discriminant
ray_sphere_branch(a, b, discriminant, t0in, t1in) ==
  IF TLt(discriminant, TZero) THEN Hits(FALSE, 0, t0in, t1in)
  ELSE IF TGt(discriminant, TZero)
       THEN ray_sphere_roots(b, TSqrt(discriminant), TDiv(TInt(1), a))
       ELSE ray_sphere_one_root(TDiv(TNeg(b), a), t1in)

\* lines 105-110: a, b, c and the discriminant b*b - a*c
ray_sphere_quadratic(a, b, c, t0in, t1in) ==
  ray_sphere_branch(a, b, TSub(TMul(b, b), TMul(a, c)), t0in, t1in)

ray_sphere_offset(offset, dir, radius, t0in, t1in) ==
  ray_sphere_quadratic(lensq(dir), dot(offset, dir),
                       TSub(lensq(offset), TMul(radius, radius)), t0in, t1in)

intersect_ray_sphere(r, s, t0in, t1in) ==
  ray_sphere_offset(VSub(r.mOrigin, s.mCenter), r.mDir, s.mRadius, t0in, t1in)

(***************************************************************************)
(* Intersection.h: glm::intersect(sphere, ray, t0, t1), which returns the  *)
(* hit count.                                                              *)
(***************************************************************************)
GHits(ret_, t0_, t1_) == [ret |-> ret_, t0 |-> t0_, t1 |-> t1_]

\* lines 30-42
\* (mutant: the single hit left in t1, line 37 left out)
glm_sphere_two_roots_NoCopy(r0, r1) ==
  IF TGe(r0, TZero) THEN GHits(2, r0, r1)
  ELSE IF TGe(r1, TZero) THEN GHits(1, r0, r1)
  ELSE GHits(0, r0, r1)
glm_sphere_two_roots(r0, r1) ==
  IF TGe(r0, TZero) THEN GHits(2, r0, r1)
  ELSE IF TGe(r1, TZero) THEN GHits(1, r1, r1)
  ELSE GHits(0, r0, r1)

\* lines 46-54
glm_sphere_one_root(e0, t1in) ==
  IF TGe(e0, TZero) THEN GHits(1, e0, t1in) ELSE GHits(0, e0, t1in)

\* lines 23-26
glm_sphere_roots(b, root, invA) ==
  glm_sphere_two_roots(TMul(TSub(TNeg(b), root), invA),
                       TMul(TAdd(TNeg(b), root), invA))

\* lines 16-55
glm_sphere_branch(a, b, discriminant, t0in, t1in) ==
  IF TLt(discriminant, TZero) THEN GHits(0, t0in, t1in)
  ELSE IF TGt(discriminant, TZero)
       THEN glm_sphere_roots(b, TSqrt(discriminant), TDiv(TInt(1), a))
       ELSE glm_sphere_one_root(TDiv(TNeg(b), a), t1in)

\* lines 11-16
glm_sphere_quadratic(a, b, c, t0in, t1in) ==
  glm_sphere_branch(a, b, TSub(TMul(b, b), TMul(a, c)), t0in, t1in)

glm_sphere_offset(offset, dir, radius, t0in, t1in) ==
  glm_sphere_quadratic(lensq(dir), dot(offset, dir),
                       TSub(lensq(offset), TMul(radius, radius)), t0in, t1in)

glm_intersect_sphere_ray(s, r, t0in, t1in) ==
  glm_sphere_offset(VSub(r.mOrigin, s.mCenter), r.mDir, s.mRadius, t0in, t1in)

(***************************************************************************)
(* The ray / sphere specification: every ray and sphere of the bounded     *)
(* input sets, and the two queries on them.                                *)
(***************************************************************************)
MaxCoord  == 1    \* ray origin coordinates range over -MaxCoord..MaxCoord
MaxRadius == 2    \* sphere radii range over 0..MaxRadius

DirCoords == {-1, 0, 1}
Centers   == {IVec3(0, 0, 0), IVec3(1, 0, -1)}

Rays ==
  {[mOrigin |-> IVec3(x, y, z), mDir |-> IVec3(dx, dy, dz)] :
     x \in -MaxCoord..MaxCoord, y \in -MaxCoord..MaxCoord, z \in -MaxCoord..MaxCoord,
     dx \in DirCoords, dy \in DirCoords, dz \in DirCoords}
  \cup {[mOrigin |-> IVec3(0, 0, 5), mDir |-> IVec3(0, 0, -1)]}

Spheres ==
  {[mCenter |-> c, mRadius |-> TInt(r)] : c \in Centers, r \in 0..MaxRadius}

InitRaySphere ==
  /\ called = {}
  /\ ray \in Rays
  /\ sphere \in Spheres
  /\ ret = FALSE /\ numhits = -9 /\ t0 = Unset /\ t1 = Unset
  /\ glm_ret = -9 /\ glm_t0 = Unset /\ glm_t1 = Unset
  /\ IdleExceptRaySphere

SetHits(res) ==
  /\ ret' = res.ret
  /\ numhits' = res.numhits
  /\ t0' = res.t0
  /\ t1' = res.t1

SetGHits(res) ==
  /\ glm_ret' = res.ret
  /\ glm_t0' = res.t0
  /\ glm_t1' = res.t1

RayIntersectSphere ==
  /\ "ray_t::intersect(sphere)" \notin called
  /\ SetHits(intersect_ray_sphere(ray, sphere, t0, t1))
  /\ called' = called \cup {"ray_t::intersect(sphere)"}
  /\ UNCHANGED <<ray, sphere, glm_ret, glm_t0, glm_t1, exceptRaySphere>>

GlmIntersectSphere ==
  /\ "glm::intersect(sphere,ray)" \notin called
  /\ SetGHits(glm_intersect_sphere_ray(sphere, ray, glm_t0, glm_t1))
  /\ called' = called \cup {"glm::intersect(sphere,ray)"}
  /\ UNCHANGED <<ray, sphere, ret, numhits, t0, t1, exceptRaySphere>>

NextRaySphere == RayIntersectSphere \/ GlmIntersectSphere

SpecRaySphere == InitRaySphere /\ [][NextRaySphere]_vars


(***************************************************************************)
(* Ray.h: ray_t::intersectAABoxRay(box, tIn, tOut), the slab test.  io is  *)
(* the pair of locals [tIn, tOut].                                         *)
(***************************************************************************)
epsilon == Fin(Q(1, 10000000))          \* const T epsilon((T)0.0000001)

InOut(tin, tout) == [tIn |-> tin, tOut |-> tout]
BoxHit(ret_, io) == [ret |-> ret_, tIn |-> io.tIn, tOut |-> io.tOut]

\* lines 182-189 (and 192-199, 202-209): the ray is parallel to the slab of
\* axis i and starts outside it
ParallelOutside(bx, r, i) ==
  /\ TLt(TAbs(r.mDir[i]), epsilon)
  /\ \/ TLt(r.mOrigin[i], bx.mMin[i])
     \/ TGt(r.mOrigin[i], bx.mMax[i])

\* lines 220-227: tIn and tOut narrowed by the ordered pair lo <= hi
SlabNarrow(io, lo, hi) ==
  InOut(IF TGt(lo, io.tIn) THEN lo ELSE io.tIn,
        IF TLt(hi, io.tOut) THEN hi ELSE io.tOut)

\* lines 215-218: std::swap(t0, t1) if t0 > t1
\* (mutant: no swap)
SlabSwapNarrow_NoSwap(io, q0, q1) == SlabNarrow(io, q0, q1)
SlabSwapNarrow(io, q0, q1) ==
  IF TGt(q0, q1) THEN SlabNarrow(io, q1, q0) ELSE SlabNarrow(io, q0, q1)

\* lines 212-227 (235-250, 258-273): the slab of axis i; the quotients are
\* computed for every axis, whatever the parallel test found
SlabAxis(bx, r, i, io) ==
  SlabSwapNarrow(io,
                 TDiv(TSub(bx.mMin[i], r.mOrigin[i]), r.mDir[i]),
                 TDiv(TSub(bx.mMax[i], r.mOrigin[i]), r.mDir[i]))

\* lines 229, 252, 275
SlabMiss(io) == TGt(io.tIn, io.tOut) \/ TLt(io.tOut, TZero)

AfterXY(bx, r, io) == BoxHit(~SlabMiss(io), io)
AfterXZ(bx, r, io) ==
  IF SlabMiss(io) THEN BoxHit(FALSE, io) ELSE AfterXY(bx, r, SlabAxis(bx, r, 2, io))
AfterYZ(bx, r, io) ==
  IF SlabMiss(io) THEN BoxHit(FALSE, io) ELSE AfterXZ(bx, r, SlabAxis(bx, r, 1, io))

intersectAABoxRay(bx, r) ==
  IF \E i \in 0..2 : ParallelOutside(bx, r, i)
  THEN BoxHit(FALSE, InOut(TLowest, TMax))
  ELSE AfterYZ(bx, r, SlabAxis(bx, r, 0, InOut(TLowest, TMax)))

\* the locals of the slab of axis i as the code leaves them: the quotients
\* t0, t1 of lines 212-213 (235-236, 258-259) before the swap, and tIn, tOut
\* before the slab and after lines 220-227
SlabRecord(bx, r, i, io) ==
  [axis |-> i,
   t0 |-> TDiv(TSub(bx.mMin[i], r.mOrigin[i]), r.mDir[i]),
   t1 |-> TDiv(TSub(bx.mMax[i], r.mOrigin[i]), r.mDir[i]),
   before |-> io,
   after |-> SlabAxis(bx, r, i, io)]

\* the slabs one call computes, in order: none after a parallel test has
\* returned false, and none after a slab has (lines 229, 252, 275)
RECURSIVE SlabsFrom(_, _, _, _)
SlabsThen(bx, r, i, rec) ==
  IF SlabMiss(rec.after) \/ i = 2
  THEN <<rec>>
  ELSE <<rec>> \o SlabsFrom(bx, r, i + 1, rec.after)
SlabsFrom(bx, r, i, io) == SlabsThen(bx, r, i, SlabRecord(bx, r, i, io))
SlabsComputed(bx, r) ==
  IF \E i \in 0..2 : ParallelOutside(bx, r, i)
  THEN <<>>
  ELSE SlabsFrom(bx, r, 0, InOut(TLowest, TMax))

\* Ray.h: ray_t::intersect(box, numHits, tIn, tOut)
BoxHits(ret_, n, tin, tout) == [ret |-> ret_, numHits |-> n, tIn |-> tin, tOut |-> tout]
\* (mutant: the entry parameter kept when the ray starts inside the box)
ray_box_result_NoCopy(res) ==
  IF res.ret
  THEN IF TLt(res.tIn, TZero)
       THEN BoxHits(TRUE, 1, res.tIn, res.tOut)
       ELSE BoxHits(TRUE, 2, res.tIn, res.tOut)
  ELSE BoxHits(FALSE, 0, res.tIn, res.tOut)
ray_box_result(res) ==
  IF res.ret
  THEN IF TLt(res.tIn, TZero)
       THEN BoxHits(TRUE, 1, res.tOut, res.tOut)
       ELSE BoxHits(TRUE, 2, res.tIn, res.tOut)
  ELSE BoxHits(FALSE, 0, res.tIn, res.tOut)
intersect_ray_aabox(r, bx) == ray_box_result(intersectAABoxRay(bx, r))

(***************************************************************************)
(* The ray / box specification: cubes [-h, h]^3, ray origins on the grid   *)
(* around each, and directions whose components are +0, -0, below epsilon  *)
(* in magnitude (5e-8) or of magnitude 1.                                  *)
(***************************************************************************)
MaxHalf == 1      \* half-widths of the boxes range over 0..MaxHalf

Tiny == Fin(Q(1, 20000000))       \* epsilon / 2
DirComponents == {TZero, NegZero, Tiny, TNeg(Tiny), TInt(1), TInt(-1)}

CubeBox(h) == [mMin |-> IVec3(-h, -h, -h), mMax |-> IVec3(h, h, h), mEmpty |-> FALSE]

BoxRays(h) ==
  {[mOrigin |-> IVec3(x, y, z), mDir |-> Vec3(dx, dy, dz)] :
     x \in -(h + 1)..(h + 1), y \in -(h + 1)..(h + 1), z \in -(h + 1)..(h + 1),
     dx \in DirComponents, dy \in DirComponents, dz \in DirComponents}

InitRayBox ==
  /\ called = {}
  /\ \E h \in 0..MaxHalf : box = CubeBox(h) /\ ray \in BoxRays(h)
  /\ ret = FALSE /\ numHits = 9 /\ tIn = Unset /\ tOut = Unset
  /\ slabs = <<>>
  /\ IdleExceptRayBox

SetBoxHits(res) ==
  /\ ret' = res.ret
  /\ numHits' = res.numHits
  /\ tIn' = res.tIn
  /\ tOut' = res.tOut

RayIntersectBox ==
  /\ "ray_t::intersect(box)" \notin called
  /\ SetBoxHits(intersect_ray_aabox(ray, box))
  /\ slabs' = SlabsComputed(box, ray)
  /\ called' = called \cup {"ray_t::intersect(box)"}
  /\ UNCHANGED <<ray, box, exceptRayBox>>

NextRayBox == RayIntersectBox

SpecRayBox == InitRayBox /\ [][NextRayBox]_vars

(***************************************************************************)
(* The ray-queries specification: one ray of the ray / sphere inputs,      *)
(* queried against a sphere and against the cube [0, MaxHalf]^3, in either *)
(* order.                                                                  *)
(***************************************************************************)
CornerBox(h) == [mMin |-> IVec3(0, 0, 0), mMax |-> IVec3(h, h, h), mEmpty |-> FALSE]

IdleExceptRayQueries ==
  /\ glm_ret = -9 /\ glm_t0 = Unset /\ glm_t1 = Unset
  /\ IdlePlanes /\ IdleProject /\ IdleFrustum /\ IdleBoxes /\ IdleAABox /\ IdleCtor
  /\ IdleQueries /\ IdleHistory /\ IdlePow

InitRayQueries ==
  /\ called = {}
  /\ ray \in Rays
  /\ sphere \in Spheres
  /\ box = CornerBox(MaxHalf)
  /\ ret = FALSE /\ numhits = -9 /\ t0 = Unset /\ t1 = Unset
  /\ numHits = 9 /\ tIn = Unset /\ tOut = Unset
  /\ slabs = <<>>
  /\ IdleExceptRayQueries

NextRayQueries == RayIntersectSphere \/ RayIntersectBox

SpecRayQueries == InitRayQueries /\ [][NextRayQueries]_vars

(***************************************************************************)
(* glm::mat3 as used by the plane / plane intersection: m[c][r] is the     *)
(* element in column c, row r; inverse and vector * matrix as GLM computes *)
(* them.                                                                   *)
(***************************************************************************)
Mat3(c0, c1, c2) == [c \in 0..2 |-> CASE c = 0 -> c0 [] c = 1 -> c1 [] c = 2 -> c2]

\* m[a][b] * m[c][d] - m[e][f] * m[g][h]
Minor2(m, a, b, c, d, e, f, g, h) ==
  TSub(TMul(m[a][b], m[c][d]), TMul(m[e][f], m[g][h]))

determinant3(m) ==
  TAdd(TSub(TMul(m[0][0], Minor2(m, 1, 1, 2, 2, 2, 1, 1, 2)),
            TMul(m[1][0], Minor2(m, 0, 1, 2, 2, 2, 1, 0, 2))),
       TMul(m[2][0], Minor2(m, 0, 1, 1, 2, 1, 1, 0, 2)))

inverse3_scaled(m, OneOverDeterminant) ==
  Mat3(Vec3(TMul(Minor2(m, 1, 1, 2, 2, 2, 1, 1, 2), OneOverDeterminant),
            TNeg(TMul(Minor2(m, 0, 1, 2, 2, 2, 1, 0, 2), OneOverDeterminant)),
            TMul(Minor2(m, 0, 1, 1, 2, 1, 1, 0, 2), OneOverDeterminant)),
       Vec3(TNeg(TMul(Minor2(m, 1, 0, 2, 2, 2, 0, 1, 2), OneOverDeterminant)),
            TMul(Minor2(m, 0, 0, 2, 2, 2, 0, 0, 2), OneOverDeterminant),
            TNeg(TMul(Minor2(m, 0, 0, 1, 2, 1, 0, 0, 2), OneOverDeterminant))),
       Vec3(TMul(Minor2(m, 1, 0, 2, 1, 2, 0, 1, 1), OneOverDeterminant),
            TNeg(TMul(Minor2(m, 0, 0, 2, 1, 2, 0, 0, 1), OneOverDeterminant)),
            TMul(Minor2(m, 0, 0, 1, 1, 1, 0, 0, 1), OneOverDeterminant)))

inverse3(m) == inverse3_scaled(m, TDiv(TInt(1), determinant3(m)))

\* v * m for a vec3 v: component c is dot(m[c], v)
VecMulMat3(v, m) == Vec3(dot(m[0], v), dot(m[1], v), dot(m[2], v))

(***************************************************************************)
(* Plane.h and Intersection.h: the two definitions of                      *)
(* glm::intersect(p1, p2, out_point, out_direction).  A plane is           *)
(* [normal, d]; op and od are the caller's values of the out-parameters.   *)
(***************************************************************************)
Plane(n, d_) == [normal |-> n, d |-> d_]
Line(ret_, point, direction) ==
  [ret |-> ret_, out_point |-> point, out_direction |-> direction]

\* A = mat3(p1.normal, p2.normal, lineDir), b = (-d1, -d2, 0) with
\* d1 = -p1.d, d2 = -p2.d; the point is b * inverse(A)
plane_line_point(pa, pb, lineDir) ==
  VecMulMat3(Vec3(TNeg(TNeg(pa.d)), TNeg(TNeg(pb.d)), TZero),
             inverse3(Mat3(pa.normal, pb.normal, lineDir)))

\* Intersection.h, lines 59-83
\* (mutant: out_direction written before the parallel test)
glm_plane_line_WriteFirst(pa, pb, lineDir, op, od) ==
  IF TEq(lensq(lineDir), TZero)
  THEN Line(FALSE, op, lineDir)
  ELSE Line(TRUE, plane_line_point(pa, pb, lineDir), lineDir)
glm_plane_line(pa, pb, lineDir, op, od) ==
  IF TEq(lensq(lineDir), TZero)
  THEN Line(FALSE, op, od)
  ELSE Line(TRUE, plane_line_point(pa, pb, lineDir), lineDir)
glm_intersect_planes(pa, pb, op, od) ==
  glm_plane_line(pa, pb, cross(pa.normal, pb.normal), op, od)

\* Plane.h, lines 181-204.  After writing the outputs the function flows
\* off its end without a return statement, which is undefined behaviour:
\* the caller may see either truth value, and a build that takes the end of
\* the function as unreachable returns false without writing the outputs.
\* The result is the set of outcomes.
plane_h_line(pa, pb, lineDir, op, od) ==
  IF TEq(lensq(lineDir), TZero)
  THEN {Line(FALSE, op, od)}
  ELSE {Line(r, plane_line_point(pa, pb, lineDir), lineDir) : r \in BOOLEAN}
       \cup {Line(FALSE, op, od)}
plane_h_intersect_planes(pa, pb, op, od) ==
  plane_h_line(pa, pb, cross(pa.normal, pb.normal), op, od)

(***************************************************************************)
(* The plane / plane specification: normals on the integer grid, offsets   *)
(* and the caller's prior out-parameter values from small sets.            *)
(***************************************************************************)
MaxNormal == 1     \* the components of p1.normal range over -MaxNormal..MaxNormal

GridNormals(k) ==
  {IVec3(x, y, z) : x \in -k..k, y \in -k..k, z \in -k..k} \ {IVec3(0, 0, 0)}
Offsets1 == {TInt(-1), TInt(2)}
Offsets2 == {TZero, TInt(2)}
CallerVecs == {IVec3(-9, -9, -9), IVec3(7, 0, 0)}

InitPlanes ==
  /\ called = {}
  /\ p1 \in {Plane(n, o) : n \in GridNormals(MaxNormal), o \in Offsets1}
  /\ p2 \in {Plane(n, o) : n \in GridNormals(1), o \in Offsets2}
  /\ out_point \in CallerVecs
  /\ out_direction = out_point
  /\ ret = FALSE
  /\ IdleExceptPlanes

SetLine(res) ==
  /\ ret' = res.ret
  /\ out_point' = res.out_point
  /\ out_direction' = res.out_direction

\* the program includes one of the two headers: one definition is called
PlaneIntersect ==
  /\ called = {}
  /\ \E res \in plane_h_intersect_planes(p1, p2, out_point, out_direction) :
       SetLine(res)
  /\ called' = {"Plane.h intersect(p1,p2)"}
  /\ UNCHANGED <<p1, p2, exceptPlanes>>

GlmPlaneIntersect ==
  /\ called = {}
  /\ SetLine(glm_intersect_planes(p1, p2, out_point, out_direction))
  /\ called' = {"Intersection.h intersect(p1,p2)"}
  /\ UNCHANGED <<p1, p2, exceptPlanes>>

NextPlanes == PlaneIntersect \/ GlmPlaneIntersect

SpecPlanes == InitPlanes /\ [][NextPlanes]_vars

(***************************************************************************)
(* Plane.h: distanceTo, generate_u, generate_uv, project, unproject.       *)
(***************************************************************************)
distanceTo(p, pt_) == TSub(dot(p.normal, pt_), p.d)

generate_u(p) ==
  IF TGt(TAbs(p.normal[0]), TAbs(p.normal[2]))
  THEN normalize(Vec3(TNeg(p.normal[1]), p.normal[0], TZero))
  ELSE normalize(Vec3(TZero, TNeg(p.normal[2]), p.normal[1]))

\* generate_uv(p, out_u, out_v) writes [u, v]
UV(u, v) == [u |-> u, v |-> v]
generate_uv_from(p, u) == UV(u, cross(u, p.normal))
generate_uv(p) == generate_uv_from(p, generate_u(p))

project(u, v, invec) == Vec2(dot(u, invec), dot(v, invec))

\* (mutant: the term p.normal * p.d left out)
unproject_NoOffset(p, u, v, invec) ==
  VAdd(VScale(u, invec[0]), VScale(v, invec[1]))
unproject(p, u, v, invec) ==
  VAdd(VAdd(VScale(u, invec[0]), VScale(v, invec[1])), VScale(p.normal, p.d))

(***************************************************************************)
(* The plane projection specification: planes with unit normals (axis      *)
(* aligned, rational and irrational), points on the integer grid, 2D       *)
(* coordinates from a small set.  A caller generates the basis, then       *)
(* projects and unprojects in either order.                                *)
(***************************************************************************)
MaxPoint == 1      \* the coordinates of the point range over -MaxPoint..MaxPoint

RVec3(xn, yn, zn, den) == Vec3(Fin(Q(xn, den)), Fin(Q(yn, den)), Fin(Q(zn, den)))
HalfSqrt2 == Fin(Mk(RZero, Rat(1, 2), 2))
UnitNormals ==
  {IVec3(1, 0, 0), IVec3(0, -1, 0), IVec3(0, 0, 1),
   RVec3(3, 4, 0, 5), RVec3(0, -3, 4, 5),
   RVec3(2, 2, 1, 3), RVec3(1, -2, 2, 3), RVec3(2, 3, 6, 7),
   Vec3(HalfSqrt2, TZero, HalfSqrt2), Vec3(HalfSqrt2, TNeg(HalfSqrt2), TZero)}
Coords == {IVec2(0, 0), IVec2(1, 0), IVec2(-1, 2)}
GridPoints(k) == {IVec3(x, y, z) : x \in -k..k, y \in -k..k, z \in -k..k}

InitProject ==
  /\ called = {}
  /\ p1 \in {Plane(n, o) : n \in UnitNormals, o \in Offsets2}
  /\ pt \in GridPoints(MaxPoint)
  /\ coord \in Coords
  /\ out_u = UnsetVec /\ out_v = UnsetVec
  /\ projected = IVec2(-9, -9) /\ roundtrip_pt = UnsetVec
  /\ unprojected = UnsetVec /\ roundtrip_coord = IVec2(-9, -9)
  /\ p2 = DefaultPlane /\ out_point = IVec3(0, 0, 0) /\ out_direction = IVec3(0, 0, 0)
  /\ IdleExceptProject

SetUV(res) == out_u' = res.u /\ out_v' = res.v

GenerateUV ==
  /\ "generate_uv" \notin called
  /\ SetUV(generate_uv(p1))
  /\ called' = called \cup {"generate_uv"}
  /\ UNCHANGED <<pt, coord, projected, roundtrip_pt, unprojected, roundtrip_coord, exceptProject>>

Project ==
  /\ "generate_uv" \in called /\ "project(pt)" \notin called
  /\ projected' = project(out_u, out_v, pt)
  /\ called' = called \cup {"project(pt)"}
  /\ UNCHANGED <<pt, coord, out_u, out_v, roundtrip_pt, unprojected, roundtrip_coord, exceptProject>>

UnprojectProjected ==
  /\ "project(pt)" \in called /\ "unproject(project(pt))" \notin called
  /\ roundtrip_pt' = unproject(p1, out_u, out_v, projected)
  /\ called' = called \cup {"unproject(project(pt))"}
  /\ UNCHANGED <<pt, coord, out_u, out_v, projected, unprojected, roundtrip_coord, exceptProject>>

Unproject ==
  /\ "generate_uv" \in called /\ "unproject(coord)" \notin called
  /\ unprojected' = unproject(p1, out_u, out_v, coord)
  /\ called' = called \cup {"unproject(coord)"}
  /\ UNCHANGED <<pt, coord, out_u, out_v, projected, roundtrip_pt, roundtrip_coord, exceptProject>>

ProjectUnprojected ==
  /\ "unproject(coord)" \in called /\ "project(unproject(coord))" \notin called
  /\ roundtrip_coord' = project(out_u, out_v, unprojected)
  /\ called' = called \cup {"project(unproject(coord))"}
  /\ UNCHANGED <<pt, coord, out_u, out_v, projected, roundtrip_pt, unprojected, exceptProject>>

NextProject ==
  \/ GenerateUV
  \/ Project
  \/ UnprojectProjected
  \/ Unproject
  \/ ProjectUnprojected

SpecProject == InitProject /\ [][NextProject]_vars

(***************************************************************************)
(* glm::mat<4, 4, T>: m[c][r] is the element in column c, row r.           *)
(***************************************************************************)
Vec4(x, y, z, w) == [i \in 0..3 |-> CASE i = 0 -> x [] i = 1 -> y [] i = 2 -> z [] i = 3 -> w]
Mat4(c0, c1, c2, c3) ==
  [c \in 0..3 |-> CASE c = 0 -> c0 [] c = 1 -> c1 [] c = 2 -> c2 [] c = 3 -> c3]
IVec4(x, y, z, w) == Vec4(TInt(x), TInt(y), TInt(z), TInt(w))
XYZ(v) == Vec3(v[0], v[1], v[2])

\* m * v: row r of the product is the sum over the columns c of m[c][r] * v[c]
Mat4Row(m, v, r) ==
  TAdd(TAdd(TMul(m[0][r], v[0]), TMul(m[1][r], v[1])),
       TAdd(TMul(m[2][r], v[2]), TMul(m[3][r], v[3])))
Mat4MulVec4(m, v) == [r \in 0..3 |-> Mat4Row(m, v, r)]

\* the three indices of 0..3 other than k, in order
Others(k) == CASE k = 0 -> <<1, 2, 3>> [] k = 1 -> <<0, 2, 3>>
               [] k = 2 -> <<0, 1, 3>> [] k = 3 -> <<0, 1, 2>>

\* the determinant of m without column c and row r
Minor3At(m, cs, rs) ==
  TAdd(TSub(TMul(m[cs[1]][rs[1]],
                 TSub(TMul(m[cs[2]][rs[2]], m[cs[3]][rs[3]]),
                      TMul(m[cs[3]][rs[2]], m[cs[2]][rs[3]]))),
            TMul(m[cs[2]][rs[1]],
                 TSub(TMul(m[cs[1]][rs[2]], m[cs[3]][rs[3]]),
                      TMul(m[cs[3]][rs[2]], m[cs[1]][rs[3]])))),
       TMul(m[cs[3]][rs[1]],
            TSub(TMul(m[cs[1]][rs[2]], m[cs[2]][rs[3]]),
                 TMul(m[cs[2]][rs[2]], m[cs[1]][rs[3]]))))
Minor3(m, c, r) == Minor3At(m, Others(c), Others(r))
Cofactor4(m, c, r) ==
  IF (c + r) % 2 = 0 THEN Minor3(m, c, r) ELSE TNeg(Minor3(m, c, r))

determinant4(m) ==
  TAdd(TAdd(TMul(m[0][0], Cofactor4(m, 0, 0)), TMul(m[1][0], Cofactor4(m, 1, 0))),
       TAdd(TMul(m[2][0], Cofactor4(m, 2, 0)), TMul(m[3][0], Cofactor4(m, 3, 0))))

\* glm::inverse: the transposed cofactors over the determinant
inverse4_scaled(m, OneOverDeterminant) ==
  [c \in 0..3 |-> [r \in 0..3 |-> TMul(Cofactor4(m, r, c), OneOverDeterminant)]]
OneOverDeterminant4(m) == TDiv(TInt(1), determinant4(m))

(***************************************************************************)
(* Frustum.h: frustum_t.  mPlanes is a function on 0..5 of planes.         *)
(***************************************************************************)
PLANE_LEFT == 0
PLANE_RIGHT == 1
PLANE_BOTTOM == 2
PLANE_TOP == 3
PLANE_NEAR == 4
PLANE_FAR == 5

\* normalize(), lines 184-198, for one plane: normal and offset over the
\* length of the normal
\* (mutant: the offset left as it was)
normalize_plane_by_NormalOnly(n, o, len) == Plane(VDivS(n, len), o)
normalize_plane_by(n, o, len) == Plane(VDivS(n, len), TDiv(o, len))
normalize_plane(p) ==
  normalize_plane_by(p.normal, p.d,
                     TSqrt(TAdd(TAdd(TMul(p.normal[0], p.normal[0]),
                                     TMul(p.normal[1], p.normal[1])),
                                TMul(p.normal[2], p.normal[2]))))
frustum_normalize(planes_) == [i \in 0..5 |-> normalize_plane(planes_[i])]

\* extractPlanes2, lines 99-136: row 3 of the matrix plus or minus row k;
\* setOffset stores the fourth coefficient in d
row_plane_plus(m, k) ==
  Plane(Vec3(TAdd(m[0][3], m[0][k]), TAdd(m[1][3], m[1][k]), TAdd(m[2][3], m[2][k])),
        TAdd(m[3][3], m[3][k]))
row_plane_minus(m, k) ==
  Plane(Vec3(TSub(m[0][3], m[0][k]), TSub(m[1][3], m[1][k]), TSub(m[2][3], m[2][k])),
        TSub(m[3][3], m[3][k]))
\* lines 105-133: the planes as they are when normalize() is called
extractPlanes2_rows(m) ==
  [i \in 0..5 |->
     CASE i = PLANE_LEFT   -> row_plane_plus(m, 0)
       [] i = PLANE_RIGHT  -> row_plane_minus(m, 0)
       [] i = PLANE_BOTTOM -> row_plane_plus(m, 1)
       [] i = PLANE_TOP    -> row_plane_minus(m, 1)
       [] i = PLANE_NEAR   -> row_plane_plus(m, 2)
       [] i = PLANE_FAR    -> row_plane_minus(m, 2)]
extractPlanes2(m) == frustum_normalize(extractPlanes2_rows(m))

\* extractPlanes, lines 140-182: the corners of the clip volume and the four
\* corners of each face
pts == [i \in 0..7 |->
          CASE i = 0 -> IVec3(-1, -1, 0) [] i = 1 -> IVec3(-1, 1, 0)
            [] i = 2 -> IVec3(1, -1, 0)  [] i = 3 -> IVec3(1, 1, 0)
            [] i = 4 -> IVec3(-1, -1, 1) [] i = 5 -> IVec3(-1, 1, 1)
            [] i = 6 -> IVec3(1, -1, 1)  [] i = 7 -> IVec3(1, 1, 1)]
planes == [i \in 0..5 |->
             CASE i = 0 -> <<4, 5, 1, 0>> [] i = 1 -> <<2, 3, 7, 6>>
               [] i = 2 -> <<0, 2, 6, 4>> [] i = 3 -> <<1, 5, 7, 3>>
               [] i = 4 -> <<1, 3, 2, 0>> [] i = 5 -> <<5, 4, 6, 7>>]

\* lines 167-168: inv * vec4(pts[i], 1), divided by its w
wpt_product(inv, i) == Mat4MulVec4(inv, Vec4(pts[i][0], pts[i][1], pts[i][2], TInt(1)))
wpt_divide(v) == [k \in 0..3 |-> TDiv(v[k], v[3])]

\* lines 174-179: the plane of one face.  The code assigns mPlanes[i].mNorm
\* and mPlanes[i].mOffset; plane_t names these members normal and d.
face_plane_of(nrm, w1) == Plane(nrm, dot(nrm, XYZ(w1)))
face_plane(w0, w1, w2) ==
  face_plane_of(normalize(cross(XYZ(VSub(w2, w1)), XYZ(VSub(w1, w0)))), w1)
\* indx is 1-based here: indx[1], indx[2], indx[3] are the source's
\* indx[0], indx[1], indx[2]
extractPlanes_wpts(wpts) ==
  [i \in 0..5 |-> face_plane(wpts[planes[i][1]], wpts[planes[i][2]], wpts[planes[i][3]])]

(***************************************************************************)
(* The frustum specification: view-projection matrices that scale,         *)
(* reflect and translate the clip volume, and three perspective matrices;  *)
(* a point strictly inside the frustum of the matrix.                      *)
(***************************************************************************)
MaxShift == 1      \* translations range over -MaxShift..MaxShift

ScaleTranslate(sx, sz, tx, tz) ==
  Mat4(IVec4(sx, 0, 0, 0), IVec4(0, 1, 0, 0), IVec4(0, 0, sz, 0), IVec4(tx, 0, tz, 1))
\* glm::perspective for a field of view of 90 degrees, aspect 1, near 1 and
\* far 2: right-handed with depth 0..1, right-handed with depth -1..1,
\* left-handed with depth 0..1
PerspectiveRH_ZO ==
  Mat4(IVec4(1, 0, 0, 0), IVec4(0, 1, 0, 0), IVec4(0, 0, -2, -1), IVec4(0, 0, -2, 0))
PerspectiveRH_NO ==
  Mat4(IVec4(1, 0, 0, 0), IVec4(0, 1, 0, 0), IVec4(0, 0, -3, -1), IVec4(0, 0, -4, 0))
PerspectiveLH_ZO ==
  Mat4(IVec4(1, 0, 0, 0), IVec4(0, 1, 0, 0), IVec4(0, 0, 2, 1), IVec4(0, 0, -2, 0))
Matrices ==
  {ScaleTranslate(sx, sz, tx, tz) :
     sx \in {1, -1, 2}, sz \in {1, -1}, tx \in -MaxShift..MaxShift, tz \in -MaxShift..MaxShift}
  \cup {PerspectiveRH_ZO, PerspectiveRH_NO, PerspectiveLH_ZO}

\* the clip coordinates c of a point strictly inside the clip volume, for
\* either depth range
InsideClip(c) ==
  /\ TGt(c[3], TZero)
  /\ TLt(TNeg(c[3]), c[0]) /\ TLt(c[0], c[3])
  /\ TLt(TNeg(c[3]), c[1]) /\ TLt(c[1], c[3])
  /\ TLt(TZero, c[2]) /\ TLt(c[2], c[3])
InsideFrustum(m, p) ==
  \E c \in {Mat4MulVec4(m, Vec4(p[0], p[1], p[2], TInt(1)))} : InsideClip(c)

Halves == {Fin(Q(k, 2)) : k \in -(2 * MaxShift + 1)..(2 * MaxShift + 1)}
HalfPoints == {Vec3(x, y, z) : x \in Halves, y \in {Fin(Q(-1, 2)), TZero, Fin(Q(1, 2))}, z \in Halves}

DefaultPlanes == [i \in 0..5 |-> DefaultPlane]

InitFrustum ==
  /\ called = {}
  /\ viewProjectionMatrix \in Matrices
  /\ inside_pt \in {p \in HalfPoints : InsideFrustum(viewProjectionMatrix, p)}
  /\ mPlanes = DefaultPlanes
  /\ IdleExceptFrustum

\* extractPlanes, lines 140-182, with its locals: inv (line 141), the
\* products inv * vec4(pts[i], 1) and wpts (lines 164-169)
\* entry is the function the caller names: extractPlanes itself, or the
\* constructor frustum_t(projMatrix), lines 46-49, whose body is that call
ExtractPlanes ==
  \E entry \in {"extractPlanes", "frustum_t(projMatrix)"} :
  /\ \E OneOverDeterminant \in {OneOverDeterminant4(viewProjectionMatrix)} :
     \E inv \in {inverse4_scaled(viewProjectionMatrix, OneOverDeterminant)} :
     \E products \in {[i \in 0..7 |-> wpt_product(inv, i)]} :
     \E wpts \in {[i \in 0..7 |-> wpt_divide(products[i])]} :
       mPlanes' = extractPlanes_wpts(wpts)
  /\ called' = {entry}
  /\ UNCHANGED <<viewProjectionMatrix, inside_pt, exceptFrustum>>

ExtractPlanes2 ==
  /\ mPlanes' = extractPlanes2(viewProjectionMatrix)
  /\ called' = {"extractPlanes2"}
  /\ UNCHANGED <<viewProjectionMatrix, inside_pt, exceptFrustum>>

NextFrustum == ExtractPlanes \/ ExtractPlanes2

SpecFrustum == InitFrustum /\ [][NextFrustum]_vars

(***************************************************************************)
(* The normalize specification: a frustum whose planes are those           *)
(* extractPlanes2 has set when it calls normalize(), or planes set through *)
(* the public member mPlanes, with normal coordinates in                   *)
(* -MaxPlane..MaxPlane; normalize() is then called, and called again.      *)
(***************************************************************************)
MaxPlane == 2      \* coordinates of the normals given to normalize()

PlaneNormals ==
  {IVec3(0, 0, 0), IVec3(1, 0, 0), IVec3(0, -MaxPlane, 0), IVec3(1, 1, 0),
   IVec3(1, MaxPlane, -MaxPlane), IVec3(1, 1, 1), IVec3(-1, 0, MaxPlane)}
PlaneOffsets == {TZero, TInt(1), TInt(-MaxPlane)}
GivenPlanes == {Plane(n, o) : n \in PlaneNormals, o \in PlaneOffsets}

InitNormalize ==
  /\ called = {}
  /\ \/ \E m \in Matrices : mPlanes = extractPlanes2_rows(m)
     \/ \E a \in GivenPlanes, b \in GivenPlanes :
          mPlanes = [i \in 0..5 |-> IF i % 2 = 0 THEN a ELSE b]
  /\ viewProjectionMatrix = 1
  /\ inside_pt = IVec3(0, 0, 0)
  /\ IdleExceptFrustum

Normalize ==
  /\ mPlanes' = frustum_normalize(mPlanes)
  /\ called' = IF called = {} THEN {"normalize"} ELSE {"normalize", "normalize again"}
  /\ UNCHANGED <<viewProjectionMatrix, inside_pt, exceptFrustum>>

NextNormalize == Normalize

SpecNormalize == InitNormalize /\ [][NextNormalize]_vars

(***************************************************************************)
(* AABox.h: aabox_t, [mMin, mMax, mEmpty] with 3D corners, and             *)
(* AABox2.h: aabox2_t, [mMin, mMax] with 2D corners.                       *)
(***************************************************************************)
\* AABox.h, lines 205-217 and AABox2.h, lines 146-157: the loop body for
\* one axis, first the max and then the min
\* (mutant: the maximum never raised)
add_point_max_Kept(mx, c) == mx
add_point_max(mx, c) == IF TGt(c, mx) THEN c ELSE mx
add_point_min(mn, c) == IF TLt(c, mn) THEN c ELSE mn

aabox_add_point(b, p) ==
  [mMin |-> [i \in 0..2 |-> add_point_min(b.mMin[i], p[i])],
   mMax |-> [i \in 0..2 |-> add_point_max(b.mMax[i], p[i])],
   mEmpty |-> FALSE]

\* isNull(), line 43
isNull(b) == TGt(b.mMin[0], b.mMax[0]) \/ TGt(b.mMin[1], b.mMax[1])

\* extend(T val), lines 46-53
aabox2_extend_val(b, val) ==
  IF ~isNull(b)
  THEN Box2(VSub(b.mMin, Vec2(val, val)), VAdd(b.mMax, Vec2(val, val)))
  ELSE b

\* glm::min(x, y) is y where y < x, glm::max(x, y) is y where x < y
glm_min(x, y) == [i \in DOMAIN x |-> IF TLt(y[i], x[i]) THEN y[i] ELSE x[i]]
glm_max(x, y) == [i \in DOMAIN x |-> IF TLt(x[i], y[i]) THEN y[i] ELSE x[i]]

\* extend(const vec<2, T>& p), lines 55-67
aabox2_extend(b, p) ==
  IF ~isNull(b)
  THEN Box2(glm_min(p, b.mMin), glm_max(p, b.mMax))
  ELSE Box2(p, p)

\* operator+=(aabox2_t&, const vec<2, T>&), lines 146-157
aabox2_add_point(b, p) ==
  Box2([i \in 0..1 |-> add_point_min(b.mMin[i], p[i])],
       [i \in 0..1 |-> add_point_max(b.mMax[i], p[i])])

\* operator+=(aabox2_t&, const aabox2_t&), lines 160-166
aabox2_add_box(b, bb) == aabox2_add_point(aabox2_add_point(b, bb.mMin), bb.mMax)

\* aabox2_t(p1, p2), lines 22-27
aabox2_of(q1, q2) == aabox2_extend(aabox2_extend(aabox2_null, q1), q2)

(***************************************************************************)
(* The box specification: one aabox_t and one aabox2_t, both default       *)
(* constructed, grown by points and boxes with coordinates in              *)
(* -MaxExtent..MaxExtent.  last is the latest call: its name, its          *)
(* arguments and the two boxes as they were before it.                     *)
(***************************************************************************)
MaxExtent == 1     \* coordinates of points and finite box corners

Points2 == {IVec2(x, y) : x \in -MaxExtent..MaxExtent, y \in -MaxExtent..MaxExtent}
Points3 == {IVec3(0, 0, 0), IVec3(MaxExtent, -MaxExtent, 0), IVec3(-1, 0, MaxExtent)}
Boxes2 ==
  {aabox2_null} \cup
  {aabox2_of(q1, q2) : q1 \in {IVec2(0, 0), IVec2(-MaxExtent, MaxExtent)},
                       q2 \in {IVec2(0, 0), IVec2(MaxExtent, 0)}}
Vals == {TInt(1), TInt(-1)}

WithinExtent(c) ==
  IsHuge(c) \/ (TLe(TInt(-MaxExtent), c) /\ TLe(c, TInt(MaxExtent)))
BoxWithinExtent(b) ==
  \A i \in 0..1 : WithinExtent(b.mMin[i]) /\ WithinExtent(b.mMax[i])

Call(op_, p_, bb, val) ==
  [op |-> op_, p |-> p_, b2 |-> bb, val |-> val, box |-> box, b1 |-> b1]

InitBoxes ==
  /\ called = {}
  /\ box = DefaultBox
  /\ b1 = aabox2_null
  /\ last = NoCall
  /\ IdleExceptBoxes

AABoxAddPoint ==
  \E p \in Points3 :
    /\ box' = aabox_add_point(box, p)
    /\ last' = Call("aabox_t += p", p, aabox2_null, TZero)
    /\ UNCHANGED <<called, b1, exceptBoxes>>

AABox2AddPoint ==
  \E p \in Points2 :
    /\ b1' = aabox2_add_point(b1, p)
    /\ last' = Call("aabox2_t += p", p, aabox2_null, TZero)
    /\ UNCHANGED <<called, box, exceptBoxes>>

AABox2Extend ==
  \E p \in Points2 :
    /\ b1' = aabox2_extend(b1, p)
    /\ last' = Call("aabox2_t::extend(p)", p, aabox2_null, TZero)
    /\ UNCHANGED <<called, box, exceptBoxes>>

AABox2ExtendVal ==
  \E val \in Vals :
    /\ BoxWithinExtent(aabox2_extend_val(b1, val))
    /\ b1' = aabox2_extend_val(b1, val)
    /\ last' = Call("aabox2_t::extend(val)", IVec2(0, 0), aabox2_null, val)
    /\ UNCHANGED <<called, box, exceptBoxes>>

AABox2AddBox ==
  \E bb \in Boxes2 :
    /\ b1' = aabox2_add_box(b1, bb)
    /\ last' = Call("aabox2_t += b2", IVec2(0, 0), bb, TZero)
    /\ UNCHANGED <<called, box, exceptBoxes>>

NextBoxes ==
  \/ AABoxAddPoint
  \/ AABox2AddPoint
  \/ AABox2Extend
  \/ AABox2ExtendVal
  \/ AABox2AddBox

SpecBoxes == InitBoxes /\ [][NextBoxes]_vars

(***************************************************************************)
(* The point-extension specification: one aabox_t and one aabox2_t, both   *)
(* default constructed, grown by points only, with coordinates in          *)
(* -MaxExtent..MaxExtent.  added holds the points each box was given.      *)
(***************************************************************************)
ExtensionPoints2 ==
  {IVec2(0, 0), IVec2(MaxExtent, -MaxExtent), IVec2(-1, MaxExtent),
   IVec2(-MaxExtent, 1), IVec2(1, 0), IVec2(0, -1)}

exceptPointExtension ==
  <<called, last, ray, ret, sphereVars, numHits, tIn, tOut, planeVars, projectVars,
    frustumVars, aaboxVars, slabVars, ctorVars, queryVars, powVars>>
IdleExceptPointExtension ==
  /\ called = {} /\ last = NoCall /\ ray = DefaultRay /\ ret = FALSE
  /\ numHits = 9 /\ tIn = Unset /\ tOut = Unset
  /\ IdleSphere /\ IdlePlanes /\ IdleProject /\ IdleFrustum /\ IdleAABox /\ IdleSlabs
  /\ IdleCtor /\ IdleQueries /\ IdlePow

InitPointExtension ==
  /\ box = DefaultBox
  /\ b1 = aabox2_null
  /\ added = NoPoints
  /\ IdleExceptPointExtension

PointAddedToAABox ==
  \E p \in Points3 :
    /\ box' = aabox_add_point(box, p)
    /\ added' = [added EXCEPT !.box = @ \cup {p}]
    /\ UNCHANGED <<b1, exceptPointExtension>>

PointAddedToAABox2 ==
  \E p \in ExtensionPoints2 :
    /\ b1' = aabox2_add_point(b1, p)
    /\ added' = [added EXCEPT !.b1 = @ \cup {p}]
    /\ UNCHANGED <<box, exceptPointExtension>>

AABox2ExtendedByPoint ==
  \E p \in ExtensionPoints2 :
    /\ b1' = aabox2_extend(b1, p)
    /\ added' = [added EXCEPT !.b1 = @ \cup {p}]
    /\ UNCHANGED <<box, exceptPointExtension>>

NextPointExtension ==
  \/ PointAddedToAABox
  \/ PointAddedToAABox2
  \/ AABox2ExtendedByPoint

SpecPointExtension == InitPointExtension /\ [][NextPointExtension]_vars

(***************************************************************************)
(* AABox.h: the public operations of aabox_t that write its members.       *)
(***************************************************************************)
\* aabox_t(min, max), lines 49-51
aabox_of(min, max) == [mMin |-> min, mMax |-> max, mEmpty |-> FALSE]
\* aabox_t(const aabox_t& box), lines 58-60
aabox_copy(b) == [mMin |-> b.mMin, mMax |-> b.mMax, mEmpty |-> b.mEmpty]
\* setMin, lines 97-100; setMax, lines 107-110; setEmpty, lines 117-120
setMin(b, min)     == [b EXCEPT !.mMin = min]
setMax(b, max)     == [b EXCEPT !.mMax = max]
setEmpty(b, empty) == [b EXCEPT !.mEmpty = empty]
\* isEmpty(), lines 87-90
isEmpty(b) == b.mEmpty

(***************************************************************************)
(* The aabox_t specification: box is default constructed and then written  *)
(* through its constructors, setters and operator+=, with points whose     *)
(* coordinates are in 0..MaxCorner; box2 is the latest copy made of it.    *)
(***************************************************************************)
MaxCorner == 1     \* coordinates of the points given to aabox_t

CornerPoints == {IVec3(x, x, x) : x \in 0..MaxCorner} \cup {IVec3(MaxCorner, 0, 0)}

InitAABox ==
  /\ box = DefaultBox
  /\ box2 = DefaultBox
  /\ IdleExceptAABox

AABoxConstruct ==
  \E min \in CornerPoints, max \in CornerPoints :
    /\ box' = aabox_of(min, max)
    /\ UNCHANGED <<box2, exceptAABox>>

AABoxCopy ==
  /\ box2' = aabox_copy(box)
  /\ UNCHANGED <<box, exceptAABox>>

AABoxSetMin ==
  \E min \in CornerPoints :
    /\ box' = setMin(box, min)
    /\ UNCHANGED <<box2, exceptAABox>>

AABoxSetMax ==
  \E max \in CornerPoints :
    /\ box' = setMax(box, max)
    /\ UNCHANGED <<box2, exceptAABox>>

AABoxSetEmpty ==
  \E empty \in BOOLEAN :
    /\ box' = setEmpty(box, empty)
    /\ UNCHANGED <<box2, exceptAABox>>

AABoxExtend ==
  \E p \in CornerPoints :
    /\ box' = aabox_add_point(box, p)
    /\ UNCHANGED <<box2, exceptAABox>>

NextAABox ==
  \/ AABoxConstruct
  \/ AABoxCopy
  \/ AABoxSetMin
  \/ AABoxSetMax
  \/ AABoxSetEmpty
  \/ AABoxExtend

SpecAABox == InitAABox /\ [][NextAABox]_vars

(***************************************************************************)
(* Plane.h: the constructors of plane_t.  The three-point constructor      *)
(* calls glm::cross(normal, vec12, vec13) and normalize(normal) as         *)
(* statements: the cross product is written to the first argument and the  *)
(* vector is normalized in place.                                          *)
(***************************************************************************)
\* lines 53 and 65: d = dot(pt, normal)
plane_through(n, pt_) == Plane(n, dot(pt_, n))
\* plane_t(pt1, pt2, pt3), lines 44-54
plane_from_points(pt1, pt2, pt3) ==
  plane_through(normalize(cross(VSub(pt2, pt1), VSub(pt3, pt1))), pt1)
\* plane_t(norm, pt), lines 62-66
plane_from_normal_point(norm, pt_) == plane_through(norm, pt_)

(***************************************************************************)
(* The plane constructor specification: p1 is constructed once, from       *)
(* points with coordinates in 0..MaxCtor or from a normal with coordinates *)
(* in -MaxCtor..MaxCtor and a point; args is the constructor call made.    *)
(***************************************************************************)
MaxCtor == 1       \* coordinates of the constructor arguments

CtorPoints == {IVec3(x, y, z) : x \in 0..MaxCtor, y \in 0..MaxCtor, z \in 0..MaxCtor}
CtorNormals == GridNormals(MaxCtor) \cup {IVec3(0, 0, 0), IVec3(2 * MaxCtor, 0, 0)}

InitPlaneCtor ==
  /\ called = {}
  /\ p1 = DefaultPlane
  /\ args = NoArgs
  /\ IdleExceptPlaneCtor

PlaneFromPoints ==
  \E pt1 \in CtorPoints, pt2 \in CtorPoints, pt3 \in CtorPoints :
    /\ called = {}
    /\ called' = {"plane_t(pt1, pt2, pt3)"}
    /\ p1' = plane_from_points(pt1, pt2, pt3)
    /\ args' = [op |-> "plane_t(pt1, pt2, pt3)", norm |-> IVec3(0, 0, 0),
                pt1 |-> pt1, pt2 |-> pt2, pt3 |-> pt3]
    /\ UNCHANGED exceptPlaneCtor

PlaneFromNormalPoint ==
  \E norm \in CtorNormals, pt1 \in CtorPoints :
    /\ called = {}
    /\ called' = {"plane_t(norm, pt)"}
    /\ p1' = plane_from_normal_point(norm, pt1)
    /\ args' = [op |-> "plane_t(norm, pt)", norm |-> norm,
                pt1 |-> pt1, pt2 |-> pt1, pt3 |-> pt1]
    /\ UNCHANGED exceptPlaneCtor

NextPlaneCtor == PlaneFromPoints \/ PlaneFromNormalPoint

SpecPlaneCtor == InitPlaneCtor /\ [][NextPlaneCtor]_vars

(***************************************************************************)
(* Ray / sphere claims.                                                    *)
(***************************************************************************)
RayCalled == "ray_t::intersect(sphere)" \in called
GlmCalled == "glm::intersect(sphere,ray)" \in called

DirNonZero(r) == \E i \in 0..2 : ~TIsZero(r.mDir[i])

\* |O + t*D - C|^2 - r^2, by substitution
SphereEq(r, s, t) ==
  TSub(lensq(VSub(VAdd(r.mOrigin, VScale(r.mDir, t)), s.mCenter)),
       TMul(s.mRadius, s.mRadius))
OnSphere(r, s, t) == TIsZero(SphereEq(r, s, t))

\* The number of distinct t >= 0 with qa*t^2 + 2*qb*t + qc = 0, qa > 0, from
\* the signs of the coefficients (the product of the roots is qc/qa, their
\* sum -2*qb/qa).
RootCount(qa, qb, qc) ==
  IF TLt(qc, TZero) THEN 1
  ELSE IF TIsZero(qc) THEN (IF TLt(qb, TZero) THEN 2 ELSE 1)
  ELSE IF ~TLt(qb, TZero) THEN 0
  ELSE IF TGt(TMul(qb, qb), TMul(qa, qc)) THEN 2
  ELSE IF TEq(TMul(qb, qb), TMul(qa, qc)) THEN 1
  ELSE 0
\* the coefficients of the quadratic from its values q0, q1, qm1 at t = 0, 1, -1
RootCountAt(q0, q1, qm1) ==
  RootCount(TSub(TDiv(TAdd(q1, qm1), TInt(2)), q0), TDiv(TSub(q1, qm1), TInt(4)), q0)
TrueHitCount(r, s) ==
  RootCountAt(SphereEq(r, s, TZero), SphereEq(r, s, TInt(1)), SphereEq(r, s, TInt(-1)))

ReportedOk(r, s, n, u0, u1) ==
  /\ n = TrueHitCount(r, s)
  /\ n >= 1 => TGe(u0, TZero) /\ OnSphere(r, s, u0)
  /\ n = 2 => TGe(u1, TZero) /\ OnSphere(r, s, u1) /\ ~TEq(u0, u1)

\* C1: for every ray with non-zero direction and every sphere, both ray-sphere
\* queries report as hit count the number of distinct t >= 0 with
\* |O + t*D - C|^2 = r^2, and every reported parameter is >= 0 and satisfies
\* that equation.
C1_RaySphereRoots ==
  /\ (RayCalled /\ DirNonZero(ray)) => ReportedOk(ray, sphere, numhits, t0, t1)
  /\ (GlmCalled /\ DirNonZero(ray)) => ReportedOk(ray, sphere, glm_ret, glm_t0, glm_t1)

\* two hits reported by both queries, at irrational parameters
C1_Witness ==
  /\ RayCalled /\ GlmCalled /\ DirNonZero(ray)
  /\ numhits = 2 /\ glm_ret = 2
  /\ t0.x.r > 1 /\ glm_t1.x.r > 1

Offset(r, s) == VSub(r.mOrigin, s.mCenter)
OriginOutside(r, s) ==
  TGt(lensq(Offset(r, s)), TMul(s.mRadius, s.mRadius))
OriginNotInside(r, s) ==
  TGe(lensq(Offset(r, s)), TMul(s.mRadius, s.mRadius))
PointsAway(r, s) == TGe(dot(Offset(r, s), r.mDir), TZero)

\* C7: for a ray with non-zero direction and a sphere of radius > 0, with the
\* origin outside the sphere and the ray pointing away from it
\* (dot(O - C, D) >= 0), the reported intersection count is 0.
AwayOutside(r, s) ==
  /\ DirNonZero(r) /\ TGt(s.mRadius, TZero)
  /\ OriginOutside(r, s) /\ PointsAway(r, s)

C7_AwayNoHits ==
  /\ (RayCalled /\ AwayOutside(ray, sphere)) => numhits = 0 /\ ~ret
  /\ (GlmCalled /\ AwayOutside(ray, sphere)) => glm_ret = 0

\* the line of the ray crosses the sphere behind the origin: two real roots,
\* both rejected
C7_Witness ==
  /\ RayCalled /\ GlmCalled
  /\ AwayOutside(ray, sphere)
  /\ numhits = 0 /\ glm_ret = 0
  /\ t0 # Unset /\ TLt(t0, TZero) /\ TLt(t1, TZero)

\* the ray (not only its line) passes through the centre
ThroughCenter(r, s) ==
  /\ DirNonZero(r)
  /\ \A i \in 0..2 : TIsZero(cross(Offset(r, s), r.mDir)[i])
  /\ TLe(dot(Offset(r, s), r.mDir), TZero)

ClosestApproach(r, s) == TDiv(TNeg(dot(Offset(r, s), r.mDir)), dot(r.mDir, r.mDir))

TwoSymmetricHits(r, s, n, u0, u1) ==
  /\ n = 2
  /\ TLt(u0, u1)
  /\ TEq(TDiv(TAdd(u0, u1), TInt(2)), ClosestApproach(r, s))

ExampleRaySphere ==
  /\ ray = [mOrigin |-> IVec3(0, 0, 5), mDir |-> IVec3(0, 0, -1)]
  /\ sphere = [mCenter |-> IVec3(0, 0, 0), mRadius |-> TInt(1)]

\* C8 as stated: a ray through the sphere's centre whose origin is not inside
\* the sphere yields exactly 2 hits t0 < t1 symmetric about the parameter of
\* closest approach.
CenterAhead(r, s) == ThroughCenter(r, s) /\ OriginNotInside(r, s)

C8_Original ==
  /\ (RayCalled /\ CenterAhead(ray, sphere))
     => TwoSymmetricHits(ray, sphere, numhits, t0, t1)
  /\ (GlmCalled /\ CenterAhead(ray, sphere))
     => TwoSymmetricHits(ray, sphere, glm_ret, glm_t0, glm_t1)

\* C8 amended: the same for a sphere of radius > 0 (a sphere of radius 0 is
\* met in its single point: 1 hit); and centre (0,0,0), radius 1, origin
\* (0,0,5), direction (0,0,-1) gives the hits t = 4 and t = 6.
C8_ThroughCenter ==
  /\ (RayCalled /\ TGt(sphere.mRadius, TZero) /\ CenterAhead(ray, sphere))
     => TwoSymmetricHits(ray, sphere, numhits, t0, t1)
  /\ (GlmCalled /\ TGt(sphere.mRadius, TZero) /\ CenterAhead(ray, sphere))
     => TwoSymmetricHits(ray, sphere, glm_ret, glm_t0, glm_t1)
  /\ (RayCalled /\ ExampleRaySphere)
     => numhits = 2 /\ t0 = TInt(4) /\ t1 = TInt(6)
  /\ (GlmCalled /\ ExampleRaySphere)
     => glm_ret = 2 /\ glm_t0 = TInt(4) /\ glm_t1 = TInt(6)

\* the example: both queries report the hits 4 and 6
C8_Witness ==
  /\ RayCalled /\ GlmCalled
  /\ ExampleRaySphere
  /\ numhits = 2 /\ t0 = TInt(4) /\ t1 = TInt(6)
  /\ glm_ret = 2 /\ glm_t0 = TInt(4) /\ glm_t1 = TInt(6)

(***************************************************************************)
(* Ray / box claims.                                                       *)
(***************************************************************************)
BoxCalled == "ray_t::intersect(box)" \in called

\* coordinate i of O + t*D
PointAt(r, t, i) == TAdd(r.mOrigin[i], TMul(t, r.mDir[i]))

\* O + t*D lies in the closed box, by substitution
InsideAt(r, bx, t) ==
  \A i \in 0..2 : /\ TLe(bx.mMin[i], PointAt(r, t, i))
                  /\ TLe(PointAt(r, t, i), bx.mMax[i])

\* the parameters at which the line O + t*D crosses a face plane of the box
PlaneParams(r, bx) ==
  UNION {{TDiv(TSub(bx.mMin[i], r.mOrigin[i]), r.mDir[i]),
          TDiv(TSub(bx.mMax[i], r.mOrigin[i]), r.mDir[i])} :
         i \in {j \in 0..2 : ~TIsZero(r.mDir[j])}}

\* Some t >= 0 puts O + t*D inside the closed box.  The set of such t is a
\* closed interval whose least element is 0 or a crossing parameter, so
\* looking at those is looking at every t.
RayReachesBox(r, bx) ==
  \E t \in {TZero} \cup PlaneParams(r, bx) : TGe(t, TZero) /\ InsideAt(r, bx, t)

\* O + t*D is inside the closed box exactly for t in [lo, hi]: both ends are
\* inside, and the ends of the set of inside parameters, which are crossing
\* parameters when the direction is not zero, lie in [lo, hi].
InsideExactlyOn(r, bx, lo, hi) ==
  /\ DirNonZero(r)
  /\ InsideAt(r, bx, lo) /\ InsideAt(r, bx, hi)
  /\ \A t \in PlaneParams(r, bx) :
       InsideAt(r, bx, t) => TLe(lo, t) /\ TLe(t, hi)

TwoHitInterval ==
  /\ TLe(TZero, tIn) /\ TLe(tIn, tOut)
  /\ InsideExactlyOn(ray, box, tIn, tOut)

BoxOrdered(bx) == \A i \in 0..2 : TLe(bx.mMin[i], bx.mMax[i])

\* each direction component is +0 or at least epsilon in magnitude
RegularDir(r) ==
  \A i \in 0..2 : r.mDir[i] = TZero \/ TGe(TAbs(r.mDir[i]), epsilon)

StrictlyInside(r, bx) ==
  \A i \in 0..2 : /\ TLt(bx.mMin[i], r.mOrigin[i])
                  /\ TLt(r.mOrigin[i], bx.mMax[i])

\* t is where the ray leaves the box: O + t*D is in the box, on a face that
\* the direction crosses outwards
ExitParam(r, bx, t) ==
  /\ IsFinite(t) /\ TGe(t, TZero)
  /\ InsideAt(r, bx, t)
  /\ \E i \in 0..2 :
       \/ TGt(r.mDir[i], TZero) /\ TEq(PointAt(r, t, i), bx.mMax[i])
       \/ TLt(r.mDir[i], TZero) /\ TEq(PointAt(r, t, i), bx.mMin[i])

ExitOnly == ret /\ numHits = 1 /\ TEq(tIn, tOut) /\ ExitParam(ray, box, tOut)

\* box (-1,-1,-1)..(1,1,1), origin (0,0,0), direction (1,0,0)
ExampleBoxRay ==
  /\ box = CubeBox(1)
  /\ ray = [mOrigin |-> IVec3(0, 0, 0), mDir |-> IVec3(1, 0, 0)]

\* C6 as stated: when the origin lies strictly inside the box, the box
\* intersect returns true with numHits = 1 and tIn = tOut = the exit
\* parameter, for every direction.
C6_Original ==
  BoxCalled /\ StrictlyInside(ray, box) => ExitOnly

\* C6, amended: when the origin lies strictly inside the box, the box
\* intersect returns true with numHits = 1 and tIn = tOut = the exit
\* parameter, for every direction that is not zero; for the box
\* (-1,-1,-1)..(1,1,1), origin (0,0,0) and direction (1,0,0), tOut = 1.
C6_InsideExitOnly ==
  /\ BoxCalled /\ StrictlyInside(ray, box) /\ DirNonZero(ray) => ExitOnly
  /\ BoxCalled /\ ExampleBoxRay => numHits = 1 /\ tIn = TInt(1) /\ tOut = TInt(1)

C6_Witness ==
  /\ BoxCalled /\ ExampleBoxRay /\ StrictlyInside(ray, box) /\ DirNonZero(ray)
  /\ ExitOnly /\ tOut = TInt(1)

(***************************************************************************)
(* Plane / plane claims.                                                   *)
(***************************************************************************)
PlaneHCalled == "Plane.h intersect(p1,p2)" \in called
IntersectionHCalled == "Intersection.h intersect(p1,p2)" \in called

\* u and v are parallel: every 2x2 minor of the pair is zero
Parallel(u, v) ==
  \A i \in 0..2 : \A j \in 0..2 : TEq(TMul(u[i], v[j]), TMul(u[j], v[i]))

OnPlane(x, p) == TEq(dot(x, p.normal), p.d)

LineOfPlanes ==
  /\ ret
  /\ VEq(out_direction, cross(p1.normal, p2.normal))
  /\ OnPlane(out_point, p1) /\ OnPlane(out_point, p2)

\* C4 as stated: for every two planes whose normals are not parallel,
\* glm::intersect(p1, p2, out_point, out_direction) returns true,
\* out_direction equals cross(p1.normal, p2.normal) and out_point lies on
\* both planes, for the definition in Plane.h and for the one in
\* Intersection.h.
C4_Original ==
  (PlaneHCalled \/ IntersectionHCalled) /\ ~Parallel(p1.normal, p2.normal)
    => LineOfPlanes

\* C5: for two planes with identical normals, whatever their offsets, a call
\* of glm::intersect(p1, p2, out_point, out_direction), of either
\* definition, returns false and leaves out_point and out_direction as the
\* caller had them.
C5_IdenticalNormalsNoLine ==
  [][VEq(p1.normal, p2.normal) =>
       /\ ret' = FALSE
       /\ out_point' = out_point
       /\ out_direction' = out_direction]_vars

\* identical normals, different offsets, after a call that returned false
\* with the caller's values still in the out-parameters
C5_Witness ==
  /\ IntersectionHCalled
  /\ VEq(p1.normal, p2.normal) /\ ~TEq(p1.d, p2.d)
  /\ ret = FALSE
  /\ out_point = IVec3(-9, -9, -9) /\ out_direction = IVec3(-9, -9, -9)

(***************************************************************************)
(* Plane projection claims.                                                *)
(***************************************************************************)
UnitNormal(p) == TEq(dot(p.normal, p.normal), TInt(1))

\* x - distanceTo(x) * normal
OrthogonalProjection(p, x) == VSub(x, VScale(p.normal, distanceTo(p, x)))

\* C9: for every plane p with unit normal, (u, v) = generate_uv(p) and every
\* point x, unproject(p, u, v, project(u, v, x)) is the orthogonal
\* projection x - distanceTo(x) * normal of x onto the plane, so it is x
\* exactly when x is on the plane; and project(u, v, unproject(p, u, v, c))
\* = c for every 2D coordinate c.
C9_ProjectRoundTrip ==
  /\ "unproject(project(pt))" \in called /\ UnitNormal(p1) =>
       /\ VEq(roundtrip_pt, OrthogonalProjection(p1, pt))
       /\ VEq(roundtrip_pt, pt) <=> OnPlane(pt, p1)
  /\ "project(unproject(coord))" \in called /\ UnitNormal(p1) =>
       VEq(roundtrip_coord, coord)

\* both round trips made on a plane with an oblique normal and a non-zero
\* offset, from a point off the plane
C9_Witness ==
  /\ "unproject(project(pt))" \in called
  /\ "project(unproject(coord))" \in called
  /\ UnitNormal(p1) /\ ~TIsZero(p1.d)
  /\ \A i \in 0..2 : ~TIsZero(p1.normal[i])
  /\ ~OnPlane(pt, p1) /\ ~VEq(roundtrip_pt, pt)
  /\ VEq(roundtrip_pt, OrthogonalProjection(p1, pt))
  /\ ~TIsZero(coord[0]) /\ VEq(roundtrip_coord, coord)

(***************************************************************************)
(* Frustum claims.                                                         *)
(***************************************************************************)
Extracted == called # {}

\* C3 as stated: both derivations produce, for every invertible
\* view-projection matrix, 6 planes whose normals point outward: for every
\* point p strictly inside the frustum and every plane i, distanceTo(p) < 0.
C3_Original ==
  Extracted => \A i \in 0..5 : TLt(distanceTo(mPlanes[i], inside_pt), TZero)

\* the projections of C12: the identity, and the symmetric perspective
\* projections (field of view 90 degrees, aspect 1, near 1, far 2)
Identity4 == ScaleTranslate(1, 1, 0, 0)
SymmetricProjections ==
  {Identity4, PerspectiveRH_ZO, PerspectiveRH_NO, PerspectiveLH_ZO}
UnitLength(n) == TEq(lensq(n), TInt(1))
\* the containment test of planes whose normals point outward: no plane has
\* the point on its positive side
Contains(planes_, p) ==
  \A i \in 0..5 : TLe(distanceTo(planes_[i], p), TZero)
CameraOrigin == IVec3(0, 0, 0)

\* C12 as stated: the planes that frustum_t(projMatrix) and extractPlanes
\* derive from the identity or a symmetric perspective projection all have
\* normals of unit length, and the containment test on them classifies the
\* origin of camera space as inside.
C12_Original ==
  (/\ called \in {{"frustum_t(projMatrix)"}, {"extractPlanes"}}
   /\ viewProjectionMatrix \in SymmetricProjections)
    => /\ \A i \in 0..5 : UnitLength(mPlanes[i].normal)
       /\ Contains(mPlanes, CameraOrigin)

SamePlane(p, q) == VEq(p.normal, q.normal) /\ TEq(p.d, q.d)

\* C13 as stated: for every invertible view-projection matrix, extractPlanes
\* and extractPlanes2 store the same plane (same unit normal, same offset
\* d) at each of the six indices.  The step from the planes of
\* extractPlanes to those of extractPlanes2, for the same matrix, changes
\* no plane.
C13_Original ==
  [][(called = {"extractPlanes"} /\ called' = {"extractPlanes2"})
       => \A i \in 0..5 : SamePlane(mPlanes[i], mPlanes'[i])]_vars

(***************************************************************************)
(* Box claims.                                                             *)
(***************************************************************************)
\* the componentwise minimum and maximum of two points
CMin(u, v) == [i \in DOMAIN u |-> IF TLe(u[i], v[i]) THEN u[i] ELSE v[i]]
CMax(u, v) == [i \in DOMAIN u |-> IF TLe(u[i], v[i]) THEN v[i] ELSE u[i]]

GrownBy(after, before, lo, hi) ==
  /\ VEq(after.mMin, CMin(before.mMin, lo))
  /\ VEq(after.mMax, CMax(before.mMax, hi))

\* C10 as stated: after b += p (aabox_t, aabox2_t) or b.extend(p)
\* (aabox2_t) the new min is the componentwise min of the old min and p and
\* the new max the componentwise max of the old max and p; and after
\* b1 += b2 for two aabox2_t boxes, b2 null or not, the new min is the
\* componentwise min of b1.min and b2.min and the new max the componentwise
\* max of b1.max and b2.max.
C10_Original ==
  /\ last.op = "aabox_t += p" => GrownBy(box, last.box, last.p, last.p)
  /\ last.op \in {"aabox2_t += p", "aabox2_t::extend(p)"} =>
       GrownBy(b1, last.b1, last.p, last.p)
  /\ last.op = "aabox2_t += b2" => GrownBy(b1, last.b1, last.b2.mMin, last.b2.mMax)

(***************************************************************************)
(* aabox_t claims.                                                         *)
(***************************************************************************)
MinLeMax(b) == \A i \in 0..2 : TLe(b.mMin[i], b.mMax[i])

\* C11 as stated: in every state of an aabox_t reachable through its
\* constructors, copy, setMin, setMax, setEmpty and operator+=, a box whose
\* isEmpty() is false has min <= max on every axis.
C11_Original ==
  /\ ~isEmpty(box) => MinLeMax(box)
  /\ ~isEmpty(box2) => MinLeMax(box2)

(***************************************************************************)
(* Ray / sphere claims: degenerate and inside rays.                        *)
(***************************************************************************)
ZeroDir(r) == ~DirNonZero(r)
\* with finite operands the t0 slot holds a NaN only as the quotient -b / a
\* of lines 144 (Ray.h) and 46 (Intersection.h) with a = 0 and b = 0
QuotientOfZeros(t) == IsNaN(t)

OriginInside(r, s) ==
  TLt(lensq(Offset(r, s)), TMul(s.mRadius, s.mRadius))

LargerRootOf(a, b, c) ==
  TDiv(TAdd(TNeg(b), TSqrt(TSub(TMul(b, b), TMul(a, c)))), a)
LargerRoot(r, s) ==
  LargerRootOf(lensq(r.mDir), dot(Offset(r, s), r.mDir),
               TSub(lensq(Offset(r, s)), TMul(s.mRadius, s.mRadius)))
ExitAt(r, s, t) ==
  /\ TEq(t, LargerRoot(r, s))
  /\ TGe(t, TZero)
  /\ OnSphere(r, s, t)

\* C15: for a ray with non-zero direction whose origin is strictly inside
\* the sphere (|O - C| < r), both queries report exactly 1 hit, and the t0
\* slot holds the exit parameter, the larger root (-b + sqrt(disc)) / a,
\* which is >= 0.
C15_InsideOneHit ==
  /\ (RayCalled /\ DirNonZero(ray) /\ OriginInside(ray, sphere)) =>
       ret /\ numhits = 1 /\ ExitAt(ray, sphere, t0)
  /\ (GlmCalled /\ DirNonZero(ray) /\ OriginInside(ray, sphere)) =>
       glm_ret = 1 /\ ExitAt(ray, sphere, glm_t0)

\* an origin inside and off the centre, the exit at an irrational parameter
C15_Witness ==
  /\ RayCalled /\ GlmCalled /\ DirNonZero(ray)
  /\ OriginInside(ray, sphere) /\ ~VEq(ray.mOrigin, sphere.mCenter)
  /\ numhits = 1 /\ glm_ret = 1
  /\ t0.x.r > 1 /\ TGt(t0, TZero)

(***************************************************************************)
(* Ray / box claims: the parallel test and the slab quotients.             *)
(***************************************************************************)
NearZero(c) == TLt(TAbs(c), epsilon)
OriginWithin(bx, r, i) ==
  TLe(bx.mMin[i], r.mOrigin[i]) /\ TLe(r.mOrigin[i], bx.mMax[i])

\* C16 as stated: on every execution of intersectAABoxRay, for each axis i
\* with |dir[i]| < epsilon the slab quotients are not computed, and that
\* axis leaves tIn and tOut unchanged when the origin lies within
\* [min[i], max[i]].
QuotientsSkipped ==
  \A k \in DOMAIN slabs : ~NearZero(ray.mDir[slabs[k].axis])
ParallelAxesIdle ==
  \A k \in DOMAIN slabs :
    (NearZero(ray.mDir[slabs[k].axis]) /\ OriginWithin(box, ray, slabs[k].axis))
      => slabs[k].after = slabs[k].before
C16_Original == BoxCalled => QuotientsSkipped /\ ParallelAxesIdle

(***************************************************************************)
(* Plane constructor claims.                                               *)
(***************************************************************************)
NonCollinear(a, b, c) == ~VEq(cross(VSub(b, a), VSub(c, a)), IVec3(0, 0, 0))
NonZeroVec(v) == \E i \in 0..2 : ~TIsZero(v[i])
Through(p, x) == TIsZero(distanceTo(p, x))

\* C17 as stated: plane_t(pt1, pt2, pt3), for non-collinear points, and
\* plane_t(norm, pt), for every non-zero norm, both produce a plane whose
\* normal has length 1 and on which the given points lie (distanceTo = 0).
C17_Original ==
  /\ (/\ args.op = "plane_t(pt1, pt2, pt3)"
      /\ NonCollinear(args.pt1, args.pt2, args.pt3))
       => /\ UnitNormal(p1)
          /\ Through(p1, args.pt1) /\ Through(p1, args.pt2) /\ Through(p1, args.pt3)
  /\ (args.op = "plane_t(norm, pt)" /\ NonZeroVec(args.norm))
       => UnitNormal(p1) /\ Through(p1, args.pt1)

(***************************************************************************)
(* AABox.h: aabox_t::intersects(box2) and aabox_t::intersects(point).      *)
(***************************************************************************)
\* (mutant: touching sides taken as separated)
separated_OrTouching(lo, hi) == TGe(lo, hi)
\* lines 125-131, 139-145: the test of one "if (lo > hi) return false"
separated(lo, hi) == TGt(lo, hi)

\* aabox_t::intersects(const aabox_t<T>& box2), lines 122-135
intersects(b, bb) ==
  IF separated(b.mMin[0], bb.mMax[0]) THEN FALSE
  ELSE IF separated(b.mMin[1], bb.mMax[1]) THEN FALSE
  ELSE IF separated(b.mMin[2], bb.mMax[2]) THEN FALSE
  ELSE IF separated(bb.mMin[0], b.mMax[0]) THEN FALSE
  ELSE IF separated(bb.mMin[1], b.mMax[1]) THEN FALSE
  ELSE IF separated(bb.mMin[2], b.mMax[2]) THEN FALSE
  ELSE TRUE

\* aabox_t::intersects(const vec<3, T>& point), lines 137-149
intersects_point(b, point) ==
  IF separated(b.mMin[0], point[0]) THEN FALSE
  ELSE IF separated(b.mMin[1], point[1]) THEN FALSE
  ELSE IF separated(b.mMin[2], point[2]) THEN FALSE
  ELSE IF separated(point[0], b.mMax[0]) THEN FALSE
  ELSE IF separated(point[1], b.mMax[1]) THEN FALSE
  ELSE IF separated(point[2], b.mMax[2]) THEN FALSE
  ELSE TRUE

(***************************************************************************)
(* The intersects specification: box is empty, a point or the cube         *)
(* [0, MaxSide]^3; box2 is empty or a cube of side 0..MaxSide whose        *)
(* minimum has coordinates in -MaxOffset..MaxOffset; pt is a corner of     *)
(* box2.  The four queries are made in any order, each once.               *)
(***************************************************************************)
MaxSide == 1       \* side of the cubes
MaxOffset == 2     \* coordinates of the minimum of box2

Cube(x, y, z, side) == aabox_of(IVec3(x, y, z), IVec3(x + side, y + side, z + side))
QueriedBoxes == {DefaultBox, Cube(0, 0, 0, 0), Cube(0, 0, 0, MaxSide)}
OtherBoxes ==
  {DefaultBox} \cup
  {Cube(x, y, z, side) : x \in -MaxOffset..MaxOffset, y \in -MaxOffset..MaxOffset,
                         z \in -MaxOffset..MaxOffset, side \in 0..MaxSide}

exceptIntersects ==
  <<ray, ret, sphereVars, numHits, tIn, tOut, planeVars, out_u, out_v, coord,
    projected, roundtrip_pt, unprojected, roundtrip_coord, frustumVars, boxVars,
    slabVars, ctorVars, historyVars, powVars>>
IdleExceptIntersects ==
  /\ ray = DefaultRay /\ ret = FALSE
  /\ numHits = 9 /\ tIn = Unset /\ tOut = Unset
  /\ out_u = UnsetVec /\ out_v = UnsetVec /\ coord = IVec2(0, 0)
  /\ projected = IVec2(-9, -9) /\ roundtrip_pt = UnsetVec
  /\ unprojected = UnsetVec /\ roundtrip_coord = IVec2(-9, -9)
  /\ IdleSphere /\ IdlePlanes /\ IdleFrustum /\ IdleBoxes /\ IdleSlabs /\ IdleCtor /\ IdleHistory /\ IdlePow

InitIntersects ==
  /\ called = {}
  /\ answers = <<>>
  /\ box \in QueriedBoxes
  /\ box2 \in OtherBoxes
  /\ pt \in {box2.mMin, box2.mMax}
  /\ IdleExceptIntersects

\* one query, made once: its name is recorded with the value it returned
Answer(query, value) ==
  /\ query \notin called
  /\ called' = called \cup {query}
  /\ answers' = [q \in DOMAIN answers \cup {query} |->
                   IF q = query THEN value ELSE answers[q]]

Intersects ==
  /\ Answer("box.intersects(box2)", intersects(box, box2))
  /\ UNCHANGED <<box, box2, pt, exceptIntersects>>

IntersectsReversed ==
  /\ Answer("box2.intersects(box)", intersects(box2, box))
  /\ UNCHANGED <<box, box2, pt, exceptIntersects>>

IntersectsPoint ==
  /\ Answer("box.intersects(pt)", intersects_point(box, pt))
  /\ UNCHANGED <<box, box2, pt, exceptIntersects>>

IntersectsPointBox ==
  /\ Answer("box.intersects(aabox_t(pt, pt))", intersects(box, aabox_of(pt, pt)))
  /\ UNCHANGED <<box, box2, pt, exceptIntersects>>

NextIntersects ==
  \/ Intersects
  \/ IntersectsReversed
  \/ IntersectsPoint
  \/ IntersectsPointBox

SpecIntersects == InitIntersects /\ [][NextIntersects]_vars

(***************************************************************************)
(* Sphere.h: sphere_t::intersectsAABox(box).                               *)
(***************************************************************************)
\* (mutant: a centre beyond max measured from min)
dist_sqr_axis_FromMin(c, min, max, dist_sqr) ==
  IF TLt(c, min) THEN TAdd(dist_sqr, TMul(TSub(c, min), TSub(c, min)))
  ELSE IF TGt(c, max) THEN TAdd(dist_sqr, TMul(TSub(c, min), TSub(c, min)))
  ELSE dist_sqr
\* lines 92-103: the body of the loop, for one axis
dist_sqr_axis(c, min, max, dist_sqr) ==
  IF TLt(c, min) THEN TAdd(dist_sqr, TMul(TSub(c, min), TSub(c, min)))
  ELSE IF TGt(c, max) THEN TAdd(dist_sqr, TMul(TSub(c, max), TSub(c, max)))
  ELSE dist_sqr

\* lines 87-103: dist_sqr after the axes 0..i-1
RECURSIVE dist_sqr_upto(_, _, _)
dist_sqr_upto(s, b, i) ==
  IF i = 0 THEN TZero
  ELSE dist_sqr_axis(s.mCenter[i - 1], b.mMin[i - 1], b.mMax[i - 1],
                     dist_sqr_upto(s, b, i - 1))

\* sphere_t::intersectsAABox, lines 85-106
intersectsAABox(s, b) == TLe(dist_sqr_upto(s, b, 3), TMul(s.mRadius, s.mRadius))

(***************************************************************************)
(* The sphere-box specification: box is empty or the cube [0, MaxSide]^3,  *)
(* the centre has coordinates in -MaxCentre..MaxCentre + MaxSide, the      *)
(* radius is one of Radii.  The query is made once.                        *)
(***************************************************************************)
MaxCentre == 4     \* the centre lies at most this far from the cube, per axis

CentreCoords == -MaxCentre..(MaxCentre + MaxSide)
Radii == {-1, 0, 1, 3, 5}
TestedSpheres ==
  {[mCenter |-> IVec3(x, y, z), mRadius |-> TInt(r)] :
     x \in CentreCoords, y \in CentreCoords, z \in CentreCoords, r \in Radii}

exceptSphereBox ==
  <<ray, ret, numhits, t0, t1, glm_ret, glm_t0, glm_t1, numHits, tIn, tOut, planeVars,
    projectVars, frustumVars, boxVars, aaboxVars, slabVars, ctorVars, historyVars, powVars>>
IdleExceptSphereBox ==
  /\ ray = DefaultRay /\ ret = FALSE
  /\ numhits = -9 /\ t0 = Unset /\ t1 = Unset
  /\ glm_ret = -9 /\ glm_t0 = Unset /\ glm_t1 = Unset
  /\ numHits = 9 /\ tIn = Unset /\ tOut = Unset
  /\ IdlePlanes /\ IdleProject /\ IdleFrustum /\ IdleBoxes /\ IdleAABox /\ IdleSlabs
  /\ IdleCtor /\ IdleHistory /\ IdlePow

InitSphereBox ==
  /\ called = {}
  /\ answers = <<>>
  /\ sphere \in TestedSpheres
  /\ box \in {DefaultBox, Cube(0, 0, 0, MaxSide)}
  /\ IdleExceptSphereBox

IntersectsAABox ==
  /\ Answer("sphere.intersectsAABox(box)", intersectsAABox(sphere, box))
  /\ UNCHANGED <<sphere, box, exceptSphereBox>>

NextSphereBox == IntersectsAABox

SpecSphereBox == InitSphereBox /\ [][NextSphereBox]_vars

(***************************************************************************)
(* The empty-box specification: box is default constructed or the cube     *)
(* [0, MaxSide]^3, and its empty flag is set and cleared by setEmpty; it   *)
(* is queried against a box, a point and a sphere, each query made once.   *)
(***************************************************************************)
InitEmptyBox ==
  /\ called = {}
  /\ answers = <<>>
  /\ added = NoPoints
  /\ box \in {DefaultBox, Cube(0, 0, 0, MaxSide)}
  /\ box2 \in {DefaultBox, Cube(0, 0, 0, MaxSide), Cube(MaxOffset, 0, 0, MaxSide)}
  /\ pt \in {box2.mMin, box2.mMax}
  /\ sphere \in {[mCenter |-> IVec3(0, 0, 0), mRadius |-> TInt(1)],
                 [mCenter |-> IVec3(MaxCentre, 0, 0), mRadius |-> TInt(0)],
                 [mCenter |-> IVec3(-MaxCentre, 0, 0), mRadius |-> TInt(MaxCentre)]}
  /\ ray = DefaultRay /\ ret = FALSE
  /\ numhits = -9 /\ t0 = Unset /\ t1 = Unset
  /\ glm_ret = -9 /\ glm_t0 = Unset /\ glm_t1 = Unset
  /\ numHits = 9 /\ tIn = Unset /\ tOut = Unset
  /\ out_u = UnsetVec /\ out_v = UnsetVec /\ coord = IVec2(0, 0)
  /\ projected = IVec2(-9, -9) /\ roundtrip_pt = UnsetVec
  /\ unprojected = UnsetVec /\ roundtrip_coord = IVec2(-9, -9)
  /\ IdlePlanes /\ IdleFrustum /\ IdleBoxes /\ IdleSlabs /\ IdleCtor /\ IdlePow

NextEmptyBox ==
  \/ AABoxSetEmpty
  \/ Intersects
  \/ IntersectsReversed
  \/ IntersectsPoint
  \/ IntersectsAABox

SpecEmptyBox == InitEmptyBox /\ [][NextEmptyBox]_vars

(***************************************************************************)
(* Units.h: nextPowerOfTwo(uint32_t) and nextPowerOfTwo(uint64_t).  An     *)
(* unsigned integer of w bits is the set of the positions of its 1 bits,   *)
(* position 0 the least significant; arithmetic is modulo 2^w.             *)
(***************************************************************************)
UINT32_BITS == 32
UINT64_BITS == 64

LowestOf(S) == CHOOSE i \in S : \A j \in S : i <= j
\* num--, for num # 0
Decrement(bits) == (bits \ {LowestOf(bits)}) \cup 0..(LowestOf(bits) - 1)
\* num++ in w bits: all ones wrap to 0
Increment(bits, w) ==
  IF bits = 0..(w - 1) THEN {}
  ELSE LET z == LowestOf(0..(w - 1) \ bits) IN (bits \ 0..(z - 1)) \cup {z}
ShiftRight(bits, k) == {i - k : i \in {j \in bits : j >= k}}
\* num = (num >> k) | num
OrShifted(bits, k) == ShiftRight(bits, k) \cup bits

\* (mutant: the line num = (num >> 16) | num left out)
nextPowerOfTwo32_NoShift16(bits) ==
  IF bits = {} THEN {0}
  ELSE Increment(OrShifted(OrShifted(OrShifted(OrShifted(
         Decrement(bits), 1), 2), 4), 8), UINT32_BITS)
\* nextPowerOfTwo(uint32_t num), lines 124-138
nextPowerOfTwo32(bits) ==
  IF bits = {} THEN {0}
  ELSE Increment(OrShifted(OrShifted(OrShifted(OrShifted(OrShifted(
         Decrement(bits), 1), 2), 4), 8), 16), UINT32_BITS)

\* nextPowerOfTwo(uint64_t num), lines 142-157
nextPowerOfTwo64(bits) ==
  IF bits = {} THEN {0}
  ELSE Increment(OrShifted(OrShifted(OrShifted(OrShifted(OrShifted(OrShifted(
         Decrement(bits), 1), 2), 4), 8), 16), 32), UINT64_BITS)

(***************************************************************************)
(* The power-of-two specification: num is 0, a number of at most           *)
(* MaxSetBits 1 bits (one anywhere, the others next to a shift distance or *)
(* at the top), such a number less one, or the greatest value of its       *)
(* width; the overload of its width is called once.                        *)
(***************************************************************************)
MaxSetBits == 2    \* the 1 bits of the arguments

\* the positions next to the shift distances of the code and to the top
Marks(w) ==
  {i \in 0..(w - 1) : \E k \in {1, 2, 4, 8, 16, 32} : i \in {k - 1, k, k + 1}}
    \cup {w - 2, w - 1}
\* one bit at any position and up to k - 1 more at marked positions
RECURSIVE BitSets(_, _)
BitSets(w, k) ==
  IF k = 0 THEN {{}}
  ELSE {S \cup {i} : S \in BitSets(w, k - 1),
                     i \in IF k = 1 THEN 0..(w - 1) ELSE Marks(w)}
Arguments(w) ==
  BitSets(w, MaxSetBits)
    \cup {Decrement(S) : S \in BitSets(w, MaxSetBits) \ {{}}}
    \cup {0..(w - 1)}

exceptPowerOfTwo ==
  <<called, ray, ret, sphereVars, rayBoxVars, planeVars, projectVars, frustumVars,
    boxVars, aaboxVars, slabVars, ctorVars, queryVars, historyVars>>
IdleExceptPowerOfTwo ==
  /\ called = {} /\ ray = DefaultRay /\ ret = FALSE
  /\ IdleSphere /\ IdleRayBox /\ IdlePlanes /\ IdleProject /\ IdleFrustum /\ IdleBoxes
  /\ IdleAABox /\ IdleSlabs /\ IdleCtor /\ IdleQueries /\ IdleHistory

InitPowerOfTwo ==
  /\ \E w \in {UINT32_BITS, UINT64_BITS} :
       \E bits \in Arguments(w) : num = [width |-> w, bits |-> bits]
  /\ returned = NotReturned
  /\ IdleExceptPowerOfTwo

NextPowerOfTwo32 ==
  /\ num.width = UINT32_BITS
  /\ ~returned.done
  /\ returned' = [done |-> TRUE, bits |-> nextPowerOfTwo32(num.bits)]
  /\ UNCHANGED <<num, exceptPowerOfTwo>>

NextPowerOfTwo64 ==
  /\ num.width = UINT64_BITS
  /\ ~returned.done
  /\ returned' = [done |-> TRUE, bits |-> nextPowerOfTwo64(num.bits)]
  /\ UNCHANGED <<num, exceptPowerOfTwo>>

NextPowerOfTwo == NextPowerOfTwo32 \/ NextPowerOfTwo64

SpecPowerOfTwo == InitPowerOfTwo /\ [][NextPowerOfTwo]_vars

(***************************************************************************)
(* normalize() claims.                                                     *)
(***************************************************************************)
\* q is p with normal and offset divided by len > 0
ScaledBy(p, q, len) ==
  /\ TGt(len, TZero)
  /\ VEq(VScale(q.normal, len), p.normal)
  /\ TEq(TMul(q.d, len), p.d)
NormalizedFrom(p, q) ==
  NonZeroVec(p.normal) => UnitNormal(q) /\ ScaledBy(p, q, length(p.normal))

\* C18 as stated: normalize() divides each plane's normal and offset by the
\* normal's length, so every plane with a non-zero normal has afterwards a
\* unit normal and the same point set; a second normalize() changes nothing.
C18_Original ==
  [][/\ called = {} => \A i \in 0..5 : NormalizedFrom(mPlanes[i], mPlanes'[i])
     /\ called # {} => mPlanes' = mPlanes]_vars

\* C18: normalize() divides each plane's normal and offset by the normal's
\* length, so every plane with a non-zero normal has afterwards a unit
\* normal and the same point set (normal and offset scaled by the same
\* positive factor); a second normalize() changes no plane whose normal is
\* of unit length, that is no plane whose normal was non-zero.
C18_NormalizeUnit ==
  [][/\ called = {} => \A i \in 0..5 : NormalizedFrom(mPlanes[i], mPlanes'[i])
     /\ called # {} =>
          \A i \in 0..5 : UnitNormal(mPlanes[i]) => mPlanes'[i] = mPlanes[i]]_vars

\* normalize() called twice on planes with normals of irrational length
C18_Witness ==
  /\ "normalize again" \in called
  /\ UnitNormal(mPlanes[0]) /\ mPlanes[0].normal[0].x.r = 3
  /\ UnitNormal(mPlanes[1]) /\ mPlanes[1].normal[0].x.r = 2
  /\ ~TIsZero(mPlanes[1].d)

(***************************************************************************)
(* aabox_t::intersects claims.                                             *)
(***************************************************************************)
\* the closed boxes a and b overlap on axis i
OverlapOn(a, b, i) == TLe(a.mMin[i], b.mMax[i]) /\ TLe(b.mMin[i], a.mMax[i])
Overlap(a, b) == \A i \in 0..2 : OverlapOn(a, b, i)
PointWithin(b, point) ==
  \A i \in 0..2 : TLe(b.mMin[i], point[i]) /\ TLe(point[i], b.mMax[i])
Answered(query) == query \in DOMAIN answers

\* C19: intersects(box2) is true iff the closed boxes overlap on all three
\* axes, so boxes that only touch intersect; the test is symmetric; and
\* intersects(point) is true exactly when min <= point <= max on every
\* axis, the answer of intersects(aabox_t(point, point)).
C19_IntersectsOverlap ==
  /\ Answered("box.intersects(box2)") =>
       answers["box.intersects(box2)"] = Overlap(box, box2)
  /\ Answered("box.intersects(box2)") /\ Answered("box2.intersects(box)") =>
       answers["box.intersects(box2)"] = answers["box2.intersects(box)"]
  /\ Answered("box.intersects(pt)") =>
       answers["box.intersects(pt)"] = PointWithin(box, pt)
  /\ Answered("box.intersects(pt)") /\ Answered("box.intersects(aabox_t(pt, pt))") =>
       answers["box.intersects(pt)"] = answers["box.intersects(aabox_t(pt, pt))"]

\* all four queries made on two cubes that meet in one corner only, with
\* pt that corner
C19_Witness ==
  /\ DOMAIN answers = {"box.intersects(box2)", "box2.intersects(box)",
                       "box.intersects(pt)", "box.intersects(aabox_t(pt, pt))"}
  /\ ~box.mEmpty /\ ~box2.mEmpty
  /\ VEq(box.mMax, box2.mMin) /\ ~VEq(box.mMin, box.mMax) /\ ~VEq(box2.mMin, box2.mMax)
  /\ pt = box2.mMin
  /\ \A q \in DOMAIN answers : answers[q]

(***************************************************************************)
(* sphere_t::intersectsAABox claims.                                       *)
(***************************************************************************)
\* the point of the closed box nearest to c: c clamped to the box
Clamp(c, min, max) == IF TLt(c, min) THEN min ELSE IF TGt(c, max) THEN max ELSE c
NearestPoint(b, c) == [i \in 0..2 |-> Clamp(c[i], b.mMin[i], b.mMax[i])]
DistanceSquared(b, c) == lensq(VSub(c, NearestPoint(b, c)))
Touching(s, b) == TEq(DistanceSquared(b, s.mCenter), TMul(s.mRadius, s.mRadius))

\* C20: intersectsAABox(box) is true iff the squared distance from the
\* centre to the nearest point of the closed box is <= radius^2; a sphere
\* that only touches the box intersects it, and so does every sphere whose
\* centre is inside the box.
C20_SphereBoxDistance ==
  Answered("sphere.intersectsAABox(box)") =>
    /\ answers["sphere.intersectsAABox(box)"] =
         TLe(DistanceSquared(box, sphere.mCenter), TMul(sphere.mRadius, sphere.mRadius))
    /\ Touching(sphere, box) => answers["sphere.intersectsAABox(box)"]
    /\ PointWithin(box, sphere.mCenter) => answers["sphere.intersectsAABox(box)"]

\* a sphere of radius 3 about a centre beyond max on one axis and below min
\* on the two others, touching the cube in one corner, has been queried
C20_Witness ==
  /\ Answered("sphere.intersectsAABox(box)")
  /\ answers["sphere.intersectsAABox(box)"]
  /\ ~box.mEmpty
  /\ TGt(sphere.mCenter[0], box.mMax[0])
  /\ TLt(sphere.mCenter[1], box.mMin[1]) /\ TLt(sphere.mCenter[2], box.mMin[2])
  /\ sphere.mRadius = TInt(3)
  /\ Touching(sphere, box)

(***************************************************************************)
(* Point-extension claims.                                                 *)
(***************************************************************************)
\* the least and the greatest coordinate i among the points of S
LeastOf(S, i) == CHOOSE c \in {p[i] : p \in S} : \A p \in S : TLe(c, p[i])
GreatestOf(S, i) == CHOOSE c \in {p[i] : p \in S} : \A p \in S : TGe(c, p[i])
BoundsOf(b, S, axes) ==
  \A i \in axes : b.mMin[i] = LeastOf(S, i) /\ b.mMax[i] = GreatestOf(S, i)

\* C21: from a default-constructed box, after any non-empty sequence of
\* point extensions (aabox_t +=; aabox2_t += or extend(point), in any mix)
\* the box is non-empty / non-null and its min and max are the componentwise
\* minimum and maximum of all points added so far.
C21_BoundsOfPoints ==
  /\ added.box # {} => ~isEmpty(box) /\ BoundsOf(box, added.box, 0..2)
  /\ added.b1 # {} => ~isNull(b1) /\ BoundsOf(b1, added.b1, 0..1)

\* both boxes have been given several points, none of which is both the
\* minimum and the maximum, by both aabox2_t forms
C21_Witness ==
  /\ Cardinality(added.box) >= 3 /\ Cardinality(added.b1) >= 3
  /\ \A p \in added.box : p # box.mMin /\ p # box.mMax
  /\ \A p \in added.b1 : p # b1.mMin /\ p # b1.mMax

(***************************************************************************)
(* Claims on the two ray / sphere queries together, and on the results of  *)
(* the ray queries.                                                        *)
(***************************************************************************)
BothSphereQueries == called = {"ray_t::intersect(sphere)", "glm::intersect(sphere,ray)"}

\* C22: for every ray and sphere the int glm::intersect returns is the
\* numhits ray_t::intersect writes, and both leave the same t0 and t1
\* whenever that count is 1 or 2.
C22_QueriesAgree ==
  BothSphereQueries =>
    /\ glm_ret = numhits
    /\ numhits \in {1, 2} => glm_t0 = t0 /\ glm_t1 = t1

\* both queries made on a ray that starts inside the sphere: one hit, the
\* exit parameter copied into t0
C22_Witness ==
  /\ BothSphereQueries
  /\ numhits = 1 /\ glm_ret = 1
  /\ t0 = t1 /\ t0 # Unset /\ TGt(t0, TZero)

Made(query) == query \in called' \ called

\* C23: ray_t::intersect(sphere, numhits, ...) returns true exactly when it
\* leaves numhits in {1, 2} and false exactly when numhits = 0, never the
\* initial -1; ray_t::intersect(box, numHits, ...) returns true exactly
\* when numHits is in {1, 2} and false exactly when numHits = 0.
C23_ResultMatchesCount ==
  [][/\ Made("ray_t::intersect(sphere)") =>
          /\ ret' = (numhits' \in {1, 2})
          /\ (~ret') = (numhits' = 0)
     /\ Made("ray_t::intersect(box)") =>
          /\ ret' = (numHits' \in {1, 2})
          /\ (~ret') = (numHits' = 0)]_vars

\* both queries made, the box last: the ray hits the sphere twice and
\* misses the box
C23_Witness ==
  /\ called = {"ray_t::intersect(sphere)", "ray_t::intersect(box)"}
  /\ numhits = 2 /\ numHits = 0 /\ ret = FALSE

(***************************************************************************)
(* Empty-box claims.                                                       *)
(***************************************************************************)
\* C24 as stated: for every box e with isEmpty() true, default constructed
\* or marked by setEmpty(true), e.intersects(b), b.intersects(e),
\* e.intersects(point) and sphere.intersectsAABox(e) are false.
C24_Original ==
  [][\A query \in {"box.intersects(box2)", "box2.intersects(box)",
                   "box.intersects(pt)", "sphere.intersectsAABox(box)"} :
       Made(query) /\ isEmpty(box) => ~answers'[query]]_vars

(***************************************************************************)
(* nextPowerOfTwo claims.                                                  *)
(***************************************************************************)
HighestOf(S) == CHOOSE i \in S : \A j \in S : i >= j
\* a <= b as unsigned integers
BitsLe(a, b) == a = b \/ HighestOf((a \ b) \cup (b \ a)) \in b
IsPowerOfTwo(bits) == Cardinality(bits) = 1
\* r is the smallest power of two >= n
SmallestPowerAbove(r, n) ==
  /\ IsPowerOfTwo(r)
  /\ BitsLe(n, r)
  /\ \A k \in 0..(HighestOf(r) - 1) : ~BitsLe(n, {k})
\* n <= 2^(w-1)
Representable(n) == BitsLe(n.bits, {n.width - 1})

\* C25 as stated: for every unsigned n of its width nextPowerOfTwo(n) is the
\* smallest power of two >= n, with nextPowerOfTwo(0) = 1; the result is
\* never 0 and never smaller than n, also for n above 2^31 (resp. 2^63).
C25_Original ==
  returned.done =>
    /\ SmallestPowerAbove(returned.bits, num.bits)
    /\ returned.bits # {}
    /\ BitsLe(num.bits, returned.bits)
    /\ num.bits = {} => returned.bits = {0}

\* C25: for every unsigned n <= 2^31 (resp. 2^63) nextPowerOfTwo(n) is the
\* smallest power of two >= n, with nextPowerOfTwo(0) = 1; for n above
\* 2^31 (resp. 2^63) the arithmetic modulo 2^w makes the result 0.
C25_PowerOrWrap ==
  returned.done =>
    IF Representable(num)
    THEN /\ SmallestPowerAbove(returned.bits, num.bits)
         /\ num.bits = {} => returned.bits = {0}
    ELSE returned.bits = {}

\* nextPowerOfTwo(2^62 + 1) = 2^63 has been computed
C25_Witness ==
  /\ returned.done
  /\ num = [width |-> UINT64_BITS, bits |-> {0, UINT64_BITS - 2}]
  /\ returned.bits = {UINT64_BITS - 1}

=============================================================================
